---- MODULE Spec2Model ----
(***************************************************************************)
(* Quantik: rules engine (core/rules.py), minimax decision engine          *)
(* (ai_players/ulysse/algorithme.py) and the game loops that drive them    *)
(* (tournament/runner.py, gui/app.py).                                     *)
(***************************************************************************)
EXTENDS Integers, Sequences, FiniteSets, TLC

\* ------------------------------------------------------------------------
\* core/types.py
\* ------------------------------------------------------------------------
CIRCLE == 1
SQUARE == 2
TRIANGLE == 3
DIAMOND == 4
Shape == <<CIRCLE, SQUARE, TRIANGLE, DIAMOND>>
Shapes == {Shape[i] : i \in 1..Len(Shape)}

PLAYER1 == 1
PLAYER2 == 2
Player == {PLAYER1, PLAYER2}

Piece(shape, player) == [shape |-> shape, player |-> player]
None == [shape |-> 0, player |-> 0]

Other(p) == IF p = PLAYER1 THEN PLAYER2 ELSE PLAYER1

\* ------------------------------------------------------------------------
\* Bounds of the model
\* ------------------------------------------------------------------------
\* placements taken back from the finished board in the positions of a game
MaxCleared == 3
\* placements taken back in the positions the rules are called on directly
MaxProbed == 2
\* cells whose owner is exchanged when the owners of a position are reassigned
MaxFlipped == 1

\* pieces of PLAYER1 in the mirrored positions the evaluator is called on
MaxMirrored == 1
\* length of the move lists the emergency selector is called on
MaxListed == 2

\* presses of the "new game" button in a GUI session; the worker of the last
\* game followed is followed while it sleeps (AIThinkingWorker.run, line 57)
MaxGames == 1
\* placements followed in a game started by the "new game" button
MaxPlaced == 1
\* largest remaining depth _minimax is entered with on a position of its own
MaxDepth == 2
\* placements taken back from the position with several immediate threats
MaxTaken == 3
\* placements taken back from the position of the opening
MaxOpened == 2

\* placements made in a row from the new board
MaxPlayed == 2

\* ------------------------------------------------------------------------
\* core/rules.py
\* ------------------------------------------------------------------------
Idx == 0..3
Cells == Idx \X Idx

ZONES == << << <<0,0>>, <<0,1>>, <<1,0>>, <<1,1>> >>,
            << <<0,2>>, <<0,3>>, <<1,2>>, <<1,3>> >>,
            << <<2,0>>, <<2,1>>, <<3,0>>, <<3,1>> >>,
            << <<2,2>>, <<2,3>>, <<3,2>>, <<3,3>> >> >>

\* zone_index that looks at the row alone
zone_index_by_row(r, c) == IF r < 2 THEN 0 ELSE 2

zone_index(r, c) ==
    IF r < 2 /\ c < 2 THEN 0
    ELSE IF r < 2 /\ c >= 2 THEN 1
    ELSE IF r >= 2 /\ c < 2 THEN 2
    ELSE 3

EmptyBoard == [r \in Idx |-> [c \in Idx |-> None]]

At(b, pos) == b[pos[1]][pos[2]]

SetCell(b, r, c, v) == [b EXCEPT ![r][c] = v]

\* QuantikBoard.is_valid_move
is_valid_move(b, row, col, piece) ==
    LET shape == piece.shape
        me == piece.player
        Clash(p) == p # None /\ p.shape = shape /\ p.player # me
    IN  IF b[row][col] # None THEN FALSE
        ELSE IF \E c \in Idx : Clash(b[row][c]) THEN FALSE
        ELSE IF \E r \in Idx : Clash(b[r][col]) THEN FALSE
        ELSE IF \E i \in 1..4 : Clash(At(b, ZONES[zone_index(row, col) + 1][i])) THEN FALSE
        ELSE TRUE

\* place_piece that writes the cell before looking at the verdict
place_piece_unchecked(b, row, col, piece) ==
    [board |-> SetCell(b, row, col, piece), ret |-> is_valid_move(b, row, col, piece)]

\* QuantikBoard.place_piece: the board after the call and the value returned
place_piece(b, row, col, piece) ==
    IF ~is_valid_move(b, row, col, piece)
    THEN [board |-> b, ret |-> FALSE]
    ELSE [board |-> SetCell(b, row, col, piece), ret |-> TRUE]

\* _all_diff without its test for an empty cell
all_diff_counting_none(pieces) ==
    Cardinality({pieces[i].shape : i \in 1..Len(pieces)}) = 4

\* QuantikBoard._all_diff
all_diff(pieces) ==
    IF \E i \in 1..Len(pieces) : pieces[i] = None THEN FALSE
    ELSE Cardinality({pieces[i].shape : i \in 1..Len(pieces)}) = 4

RowLine(r) == [i \in 1..4 |-> <<r, i - 1>>]
ColLine(c) == [i \in 1..4 |-> <<i - 1, c>>]

PiecesOn(b, line) == [i \in 1..Len(line) |-> At(b, line[i])]

\* QuantikBoard.check_victory
check_victory(b) ==
    IF \E r \in Idx : all_diff(PiecesOn(b, RowLine(r))) THEN TRUE
    ELSE IF \E c \in Idx : all_diff(PiecesOn(b, ColLine(c))) THEN TRUE
    ELSE IF \E z \in 1..4 : all_diff(PiecesOn(b, ZONES[z])) THEN TRUE
    ELSE FALSE

\* QuantikBoard.has_valid_moves
has_valid_moves(b, player) ==
    \E s \in Shapes : \E r \in Idx : \E c \in Idx :
        b[r][c] = None /\ is_valid_move(b, r, c, Piece(s, player))

\* ------------------------------------------------------------------------
\* ai_players/ulysse/algorithme.py : pure helpers of QuantikAI
\* ------------------------------------------------------------------------
base_depth == 4

\* math.inf: only compared against, never added to; every score the code
\* computes is far below this magnitude
Inf == 1000000

NoMove == <<>>

Max(a, b) == IF a >= b THEN a ELSE b
Min(a, b) == IF a <= b THEN a ELSE b

RECURSIVE SumSeq(_)
SumSeq(s) == IF s = <<>> THEN 0 ELSE Head(s) + SumSeq(Tail(s))

\* _get_zone_positions that looks at the row alone
get_zone_positions_by_row(row, col) ==
    IF row < 2 THEN << <<0,0>>, <<0,1>>, <<1,0>>, <<1,1>> >>
    ELSE << <<2,0>>, <<2,1>>, <<3,0>>, <<3,1>> >>

\* QuantikAI._get_zone_positions
get_zone_positions(row, col) ==
    IF row < 2 /\ col < 2 THEN << <<0,0>>, <<0,1>>, <<1,0>>, <<1,1>> >>
    ELSE IF row < 2 /\ col >= 2 THEN << <<0,2>>, <<0,3>>, <<1,2>>, <<1,3>> >>
    ELSE IF row >= 2 /\ col < 2 THEN << <<2,0>>, <<2,1>>, <<3,0>>, <<3,1>> >>
    ELSE << <<2,2>>, <<2,3>>, <<3,2>>, <<3,3>> >>

\* _is_move_valid without its row check
is_move_valid_no_row(b, row, col, piece) ==
    LET shape == piece.shape
        player == piece.player
        Clash(other_piece) ==
            other_piece # None /\ other_piece.shape = shape /\ other_piece.player # player
        zone_positions == get_zone_positions(row, col)
    IN  IF b[row][col] # None THEN FALSE
        ELSE IF \E r \in Idx : Clash(b[r][col]) THEN FALSE
        ELSE IF \E i \in 1..Len(zone_positions) : Clash(At(b, zone_positions[i])) THEN FALSE
        ELSE TRUE

\* QuantikAI._is_move_valid
is_move_valid(b, row, col, piece) ==
    LET shape == piece.shape
        player == piece.player
        Clash(other_piece) ==
            other_piece # None /\ other_piece.shape = shape /\ other_piece.player # player
        zone_positions == get_zone_positions(row, col)
    IN  IF b[row][col] # None THEN FALSE
        ELSE IF \E c \in Idx : Clash(b[row][c]) THEN FALSE
        ELSE IF \E r \in Idx : Clash(b[r][col]) THEN FALSE
        ELSE IF \E i \in 1..Len(zone_positions) : Clash(At(b, zone_positions[i])) THEN FALSE
        ELSE TRUE

\* the loops nested the other way round: Shape, then row, then col
LoopOrder_shape_major ==
    [i \in 1..64 |-> <<((i - 1) \div 4) % 4, (i - 1) % 4, Shape[((i - 1) \div 16) + 1]>>]

\* The (row, col, shape) triples in the order the nested loops of
\* _generate_all_valid_moves visit them: row, then col, then Shape
LoopOrder == [i \in 1..64 |-> <<(i - 1) \div 16, ((i - 1) \div 4) % 4, Shape[((i - 1) % 4) + 1]>>]

\* the generator leaving the shape loop at the first shape a cell accepts
generate_first_shape_only(b, player) ==
    LET Keep(m) == /\ b[m[1]][m[2]] = None
                   /\ is_move_valid(b, m[1], m[2], Piece(m[3], player))
                   /\ \A s \in Shapes : s < m[3] => ~is_move_valid(b, m[1], m[2], Piece(s, player))
    IN  SelectSeq(LoopOrder, Keep)

\* QuantikAI._generate_all_valid_moves
generate_all_valid_moves(b, player) ==
    LET Keep(m) == b[m[1]][m[2]] = None /\ is_move_valid(b, m[1], m[2], Piece(m[3], player))
    IN  SelectSeq(LoopOrder, Keep)

\* one depth for every stage of the game
calculate_optimal_depth_flat(pieces_played) == base_depth + 2

\* QuantikAI._calculate_optimal_depth
calculate_optimal_depth(pieces_played) ==
    IF pieces_played <= 4 THEN base_depth
    ELSE IF pieces_played <= 10 THEN base_depth + 2
    ELSE base_depth + 4

pieces_played_on(b) == Cardinality({pos \in Cells : At(b, pos) # None})

\* the 12 lines, in the order every helper of the AI builds them:
\* 4 rows, 4 columns, 4 zones
all_lines == [i \in 1..12 |->
                IF i <= 4 THEN RowLine(i - 1)
                ELSE IF i <= 8 THEN ColLine(i - 5)
                ELSE ZONES[i - 8]]

NotNone(p) == p # None

EmptyPositions(b, line_positions) ==
    LET IsEmpty(pos) == At(b, pos) = None IN SelectSeq(line_positions, IsEmpty)

ShapesOf(ps) == {ps[i].shape : i \in 1..Len(ps)}

\* the line test without its look at the owners
DistinctWithOwner_anyone(all_pieces, player, n) ==
    /\ Len(all_pieces) = n
    /\ Cardinality(ShapesOf(all_pieces)) = n

\* len(all_pieces) == n, n different shapes, and at least one piece of player
DistinctWithOwner(all_pieces, player, n) ==
    /\ Len(all_pieces) = n
    /\ Cardinality(ShapesOf(all_pieces)) = n
    /\ \E i \in 1..Len(all_pieces) : all_pieces[i].player = player

\* the test _find_immediate_threats applies to one line
IsImmediateThreat(b, player, line_positions) ==
    /\ Len(EmptyPositions(b, line_positions)) = 1
    /\ DistinctWithOwner(SelectSeq(PiecesOn(b, line_positions), NotNone), player, 3)

\* the test _find_developing_threats applies to one line
IsDevelopingThreat(b, player, line_positions) ==
    /\ Len(EmptyPositions(b, line_positions)) = 2
    /\ DistinctWithOwner(SelectSeq(PiecesOn(b, line_positions), NotNone), player, 2)

\* threats.append(empty_positions), for each retained line in order
VacanciesOf(b, hit) == [i \in 1..Len(hit) |-> EmptyPositions(b, hit[i])]

\* QuantikAI._find_immediate_threats
find_immediate_threats(b, player) ==
    LET IsThreat(line_positions) == IsImmediateThreat(b, player, line_positions)
    IN  VacanciesOf(b, SelectSeq(all_lines, IsThreat))

\* QuantikAI._find_developing_threats
find_developing_threats(b, player) ==
    LET IsThreat(line_positions) == IsDevelopingThreat(b, player, line_positions)
    IN  VacanciesOf(b, SelectSeq(all_lines, IsThreat))

\* (row, col) in threat_positions for some threat_positions in threats
InSomeThreat(row, col, threats) ==
    \E t \in 1..Len(threats) : \E k \in 1..Len(threats[t]) : threats[t][k] = <<row, col>>

\* a centre test that knows two of the four cells
IsCenter_diagonal(row, col) == <<row, col>> \in {<<1,1>>, <<2,2>>}

IsCenter(row, col) == <<row, col>> \in {<<1,1>>, <<1,2>>, <<2,1>>, <<2,2>>}

\* position values whose semi-centre test looks at the row alone
get_position_value_by_row(row, col) ==
    IF IsCenter(row, col) THEN 20
    ELSE IF row \in {1, 2} THEN 10
    ELSE 5

\* QuantikAI._get_position_value
get_position_value(row, col) ==
    IF IsCenter(row, col) THEN 20
    ELSE IF row \in {1, 2} \/ col \in {1, 2} THEN 10
    ELSE 5

\* the score _evaluate_line_potential gives to an unblocked line
LineProgress(my_pieces, my_shapes, empty_count) ==
    IF my_shapes = Len(my_pieces) /\ my_shapes + empty_count = 4
    THEN (IF my_shapes = 3 THEN 10
          ELSE IF my_shapes = 2 THEN 3
          ELSE IF my_shapes = 1 THEN 1
          ELSE 0)
    ELSE 0

OwnedBy(pieces, player) ==
    LET Mine(p) == p # None /\ p.player = player IN SelectSeq(pieces, Mine)

NotOwnedBy(pieces, player) ==
    LET Theirs(p) == p # None /\ p.player # player IN SelectSeq(pieces, Theirs)

EmptyCount(pieces) ==
    LET IsNone(p) == p = None IN Len(SelectSeq(pieces, IsNone))

LinePotentialOf(pieces, my_pieces, opp_pieces) ==
    IF opp_pieces # <<>> THEN 0
    ELSE IF my_pieces = <<>> THEN 0
    ELSE LineProgress(my_pieces, Cardinality(ShapesOf(my_pieces)), EmptyCount(pieces))

\* QuantikAI._evaluate_line_potential
evaluate_line_potential(pieces, player) ==
    LinePotentialOf(pieces, OwnedBy(pieces, player), NotOwnedBy(pieces, player))

\* QuantikAI._count_line_potential
count_line_potential(b, player) ==
    SumSeq([i \in 1..12 |-> evaluate_line_potential(PiecesOn(b, all_lines[i]), player)])

CellOrder == [i \in 1..16 |-> <<(i - 1) \div 4, (i - 1) % 4>>]

\* the contribution of one cell to _evaluate_position; pos_value * 0.8 is
\* 16.0, 8.0 or 4.0, so every score is a whole number
CellScore(piece, pos_value, me) ==
    IF piece = None THEN 0
    ELSE IF piece.player = me THEN pos_value
    ELSE 0 - ((pos_value * 8) \div 10)

\* QuantikAI._evaluate_position, for the AI playing `me`
evaluate_position(b, me) ==
    SumSeq([i \in 1..16 |-> CellScore(At(b, CellOrder[i]),
                                      get_position_value(CellOrder[i][1], CellOrder[i][2]), me)])
    + count_line_potential(b, me) * 50
    - count_line_potential(b, Other(me)) * 60
    - Len(find_developing_threats(b, Other(me))) * 150
    - Len(find_immediate_threats(b, Other(me))) * 300
    + (Len(generate_all_valid_moves(b, me)) - Len(generate_all_valid_moves(b, Other(me)))) * 5

\* a complete line of 4 different shapes with at least one piece of player
WinningLineOf(pieces, player) ==
    /\ \A k \in 1..4 : pieces[k] # None
    /\ Cardinality(ShapesOf(pieces)) = 4
    /\ \E k \in 1..4 : pieces[k].player = player

\* QuantikAI._is_winner
is_winner(b, player) ==
    \E i \in 1..12 : WinningLineOf(PiecesOn(b, all_lines[i]), player)

\* the selector without its last line, return valid_moves[0]
FirstOr_center_only(center_moves, valid_moves) ==
    IF center_moves # <<>> THEN center_moves[1] ELSE NoMove

FirstOr(center_moves, valid_moves) ==
    IF center_moves # <<>> THEN center_moves[1] ELSE valid_moves[1]

\* QuantikAI._emergency_move_selection
emergency_move_selection(b, valid_moves) ==
    LET OnCenter(m) == IsCenter(m[1], m[2])
    IN  IF valid_moves = <<>> THEN NoMove
        ELSE FirstOr(SelectSeq(valid_moves, OnCenter), valid_moves)

\* ------------------------------------------------------------------------
\* ai_players/ulysse/algorithme.py : the tactical rules of _minimax_root.
\* Each probe returns the working board it leaves behind next to its result.
\* ------------------------------------------------------------------------
\* board.board[row][col] = Piece(shape, player)
Simulate(b, row, col, piece) == SetCell(b, row, col, piece)

\* a simulation that is never taken back
Restore_skipped(b, row, col, old_piece) == b

\* board.board[row][col] = old_piece
Restore(b, row, col, old_piece) == SetCell(b, row, col, old_piece)

Undecided(b) == [board |-> b, decided |-> FALSE, score |-> 0, move |-> NoMove]
Decided(b, score, move) == [board |-> b, decided |-> TRUE, score |-> score, move |-> move]

\* a win probe that keeps looking and returns the last winning move
WinProbe_last(b, me, valid_moves, i) ==
    LET wins == {k \in 1..Len(valid_moves) :
                    check_victory(Simulate(b, valid_moves[k][1], valid_moves[k][2],
                                           Piece(valid_moves[k][3], me)))}
    IN  IF wins = {} THEN [board |-> b, move |-> NoMove]
        ELSE [board |-> b, move |-> valid_moves[CHOOSE k \in wins : \A j \in wins : j <= k]]

\* _minimax_root, lines 143-151: the win probe
RECURSIVE WinProbe(_, _, _, _)
WinProbeOn(me, valid_moves, i, old_piece, b1) ==
    IF check_victory(b1)
    THEN [board |-> Restore(b1, valid_moves[i][1], valid_moves[i][2], old_piece),
          move |-> valid_moves[i]]
    ELSE WinProbe(Restore(b1, valid_moves[i][1], valid_moves[i][2], old_piece),
                  me, valid_moves, i + 1)

WinProbe(b, me, valid_moves, i) ==
    IF i > Len(valid_moves) THEN [board |-> b, move |-> NoMove]
    ELSE WinProbeOn(me, valid_moves, i, b[valid_moves[i][1]][valid_moves[i][2]],
                    Simulate(b, valid_moves[i][1], valid_moves[i][2],
                             Piece(valid_moves[i][3], me)))

\* _minimax_root, lines 159-173: the first valid move on the single threat's
\* vacancy after which the opponent has no immediate threat
RECURSIVE SafeBlockProbe(_, _, _, _, _)
SafeBlockJudge(me, valid_moves, opponent_threats, i, safe, b2) ==
    IF safe THEN [board |-> b2, move |-> valid_moves[i]]
    ELSE SafeBlockProbe(b2, me, valid_moves, opponent_threats, i + 1)

SafeBlockTry(me, valid_moves, opponent_threats, i, old_piece, b1) ==
    SafeBlockJudge(me, valid_moves, opponent_threats, i,
                   Len(find_immediate_threats(b1, Other(me))) = 0,
                   Restore(b1, valid_moves[i][1], valid_moves[i][2], old_piece))

SafeBlockProbe(b, me, valid_moves, opponent_threats, i) ==
    IF i > Len(valid_moves) THEN [board |-> b, move |-> NoMove]
    ELSE IF ~InSomeThreat(valid_moves[i][1], valid_moves[i][2], opponent_threats)
    THEN SafeBlockProbe(b, me, valid_moves, opponent_threats, i + 1)
    ELSE SafeBlockTry(me, valid_moves, opponent_threats, i,
                      b[valid_moves[i][1]][valid_moves[i][2]],
                      Simulate(b, valid_moves[i][1], valid_moves[i][2],
                               Piece(valid_moves[i][3], me)))

\* the dominance of one line holding 3 pieces of 3 shapes
LineDominance(non_none, opponent) ==
    LET IsOpp(p) == p.player = opponent
    IN  IF Len(non_none) = 3 /\ Cardinality(ShapesOf(non_none)) = 3
        THEN Len(SelectSeq(non_none, IsOpp)) * 100
        ELSE 0

Dominance(b, me, line_positions, block_row, block_col) ==
    IF \E k \in 1..Len(line_positions) : line_positions[k] = <<block_row, block_col>>
    THEN LineDominance(SelectSeq(PiecesOn(b, line_positions), NotNone), Other(me))
    ELSE 0

\* QuantikAI._calculate_threat_dominance_bonus
calculate_threat_dominance_bonus(b, me, block_row, block_col, opponent_threats) ==
    LET RECURSIVE Scan(_, _)
        Scan(i, max_dominance) ==
            IF i > 12 THEN max_dominance
            ELSE Scan(i + 1, Max(max_dominance,
                                 Dominance(b, me, all_lines[i], block_row, block_col)))
    IN  Scan(1, 0)

BlockingScore(threats, remaining_threats, our_new_threats, dominance_bonus) ==
    (threats - remaining_threats) * 1000 + our_new_threats * 500 + dominance_bonus
    - remaining_threats * 200

\* QuantikAI._find_best_blocking_move, lines 587-613: the loop
RECURSIVE BestBlockingScan(_, _, _, _, _, _, _)
BestBlockingJudge(me, opponent_threats, valid_moves, i, best_move, best_score, score, b2) ==
    IF score > best_score
    THEN BestBlockingScan(b2, me, opponent_threats, valid_moves, i + 1, valid_moves[i], score)
    ELSE BestBlockingScan(b2, me, opponent_threats, valid_moves, i + 1, best_move, best_score)

BestBlockingTry(me, opponent_threats, valid_moves, i, best_move, best_score, dominance_bonus, old_piece, b1) ==
    BestBlockingJudge(me, opponent_threats, valid_moves, i, best_move, best_score,
                      BlockingScore(Len(opponent_threats),
                                    Len(find_immediate_threats(b1, Other(me))),
                                    Len(find_immediate_threats(b1, me)),
                                    dominance_bonus),
                      Restore(b1, valid_moves[i][1], valid_moves[i][2], old_piece))

BestBlockingScan(b, me, opponent_threats, valid_moves, i, best_move, best_score) ==
    IF i > Len(valid_moves) THEN [board |-> b, move |-> best_move]
    ELSE IF ~InSomeThreat(valid_moves[i][1], valid_moves[i][2], opponent_threats)
    THEN BestBlockingScan(b, me, opponent_threats, valid_moves, i + 1, best_move, best_score)
    ELSE BestBlockingTry(me, opponent_threats, valid_moves, i, best_move, best_score,
                         calculate_threat_dominance_bonus(b, me, valid_moves[i][1],
                                                          valid_moves[i][2], opponent_threats),
                         b[valid_moves[i][1]][valid_moves[i][2]],
                         Simulate(b, valid_moves[i][1], valid_moves[i][2],
                                  Piece(valid_moves[i][3], me)))

\* the loop left after the first valid move
find_best_blocking_move_first_only(b, me, opponent_threats, valid_moves) ==
    BestBlockingScan(b, me, opponent_threats, SubSeq(valid_moves, 1, 1), 1, NoMove, 0 - Inf)

\* QuantikAI._find_best_blocking_move
find_best_blocking_move(b, me, opponent_threats, valid_moves) ==
    BestBlockingScan(b, me, opponent_threats, valid_moves, 1, NoMove, 0 - Inf)

\* QuantikAI._find_most_dominant_threat, lines 672-677: the loop
RECURSIVE MostDominantScan(_, _, _, _, _, _, _)
MostDominantJudge(b, me, opponent_threats, valid_moves, i, best_move, best_dominance, dominance) ==
    IF dominance > best_dominance
    THEN MostDominantScan(b, me, opponent_threats, valid_moves, i + 1, valid_moves[i], dominance)
    ELSE MostDominantScan(b, me, opponent_threats, valid_moves, i + 1, best_move, best_dominance)

MostDominantScan(b, me, opponent_threats, valid_moves, i, best_move, best_dominance) ==
    IF i > Len(valid_moves) THEN best_move
    ELSE IF ~InSomeThreat(valid_moves[i][1], valid_moves[i][2], opponent_threats)
    THEN MostDominantScan(b, me, opponent_threats, valid_moves, i + 1, best_move, best_dominance)
    ELSE MostDominantJudge(b, me, opponent_threats, valid_moves, i, best_move, best_dominance,
                           calculate_threat_dominance_bonus(b, me, valid_moves[i][1],
                                                            valid_moves[i][2], opponent_threats))

\* QuantikAI._find_most_dominant_threat
find_most_dominant_threat(b, me, opponent_threats) ==
    MostDominantScan(b, me, opponent_threats, generate_all_valid_moves(b, me), 1, NoMove, -1)

CounterScore(my_new_threats, my_dev_new_threats, dev_threat_blocked) ==
    my_new_threats * 200 + my_dev_new_threats * 100 + (IF dev_threat_blocked THEN 150 ELSE 0)

\* _minimax_root, lines 192-219: the developing-threat loop
RECURSIVE CounterScan(_, _, _, _, _, _, _)
CounterJudge(me, opponent_dev_threats, valid_moves, i, best_counter_move, best_counter_score, counter_score, b2) ==
    IF counter_score > best_counter_score
    THEN CounterScan(b2, me, opponent_dev_threats, valid_moves, i + 1, valid_moves[i],
                     counter_score)
    ELSE CounterScan(b2, me, opponent_dev_threats, valid_moves, i + 1, best_counter_move,
                     best_counter_score)

\* every move is scored, whatever it leaves to the opponent
CounterTry_unchecked(me, opponent_dev_threats, valid_moves, i, best_counter_move, best_counter_score, old_piece, b1) ==
    CounterJudge(me, opponent_dev_threats, valid_moves, i, best_counter_move,
                 best_counter_score,
                 CounterScore(Len(find_immediate_threats(b1, me)),
                              Len(find_developing_threats(b1, me)),
                              InSomeThreat(valid_moves[i][1], valid_moves[i][2],
                                           opponent_dev_threats)),
                 Restore(b1, valid_moves[i][1], valid_moves[i][2], old_piece))

CounterTry(me, opponent_dev_threats, valid_moves, i, best_counter_move, best_counter_score, old_piece, b1) ==
    IF Len(find_immediate_threats(b1, Other(me))) > 0
    THEN CounterScan(Restore(b1, valid_moves[i][1], valid_moves[i][2], old_piece), me,
                     opponent_dev_threats, valid_moves, i + 1, best_counter_move,
                     best_counter_score)
    ELSE CounterJudge(me, opponent_dev_threats, valid_moves, i, best_counter_move,
                      best_counter_score,
                      CounterScore(Len(find_immediate_threats(b1, me)),
                                   Len(find_developing_threats(b1, me)),
                                   InSomeThreat(valid_moves[i][1], valid_moves[i][2],
                                                opponent_dev_threats)),
                      Restore(b1, valid_moves[i][1], valid_moves[i][2], old_piece))

CounterScan(b, me, opponent_dev_threats, valid_moves, i, best_counter_move, best_counter_score) ==
    IF i > Len(valid_moves)
    THEN [board |-> b, move |-> best_counter_move, score |-> best_counter_score]
    ELSE CounterTry(me, opponent_dev_threats, valid_moves, i, best_counter_move,
                    best_counter_score, b[valid_moves[i][1]][valid_moves[i][2]],
                    Simulate(b, valid_moves[i][1], valid_moves[i][2],
                             Piece(valid_moves[i][3], me)))

PositionalPriority(row, col) ==
    IF IsCenter(row, col) THEN 100
    ELSE IF row \in {1, 2} \/ col \in {1, 2} THEN 50
    ELSE 0

MoveScoreOn(me, move, old_piece, b1) ==
    [board |-> Restore(b1, move[1], move[2], old_piece),
     key |-> 0 - (PositionalPriority(move[1], move[2])
                  + Len(find_immediate_threats(b1, me)) * 200
                  + count_line_potential(b1, me) * 10)]

\* move_score of _sort_moves_by_priority: the sort key (-score)
move_score(b, me, move) ==
    MoveScoreOn(me, move, b[move[1]][move[2]],
                Simulate(b, move[1], move[2], Piece(move[3], me)))

\* The keys sorted() computes, one call of move_score per move in list order,
\* each on the board the previous call left (the loop ends when every
\* move has its key: i = Len(keys) + 1 throughout)
RECURSIVE SortKeys(_, _, _, _, _)
SortKeysNext(me, moves, i, keys, ms) ==
    SortKeys(ms.board, me, moves, i + 1, Append(keys, ms.key))

SortKeys(b, me, moves, i, keys) ==
    IF Len(keys) >= Len(moves) THEN [board |-> b, keys |-> keys]
    ELSE SortKeysNext(me, moves, i, keys, move_score(b, me, moves[i]))

\* a sort that puts the later of two moves with equal keys first
StableSortByKey_ties_reversed(moves, keys) ==
    LET Rank(i) == Cardinality({j \in 1..Len(moves) :
                        keys[j] < keys[i] \/ (keys[j] = keys[i] /\ j > i)}) + 1
    IN  [k \in 1..Len(moves) |-> moves[CHOOSE i \in 1..Len(moves) : Rank(i) = k]]

\* sorted(moves, key=...): ascending by key, equal keys keep list order
StableSortByKey(moves, keys) ==
    LET Rank(i) == Cardinality({j \in 1..Len(moves) :
                        keys[j] < keys[i] \/ (keys[j] = keys[i] /\ j < i)}) + 1
    IN  [k \in 1..Len(moves) |-> moves[CHOOSE i \in 1..Len(moves) : Rank(i) = k]]

SortedBy(moves, sk) == [board |-> sk.board, moves |-> StableSortByKey(moves, sk.keys)]

\* QuantikAI._sort_moves_by_priority
sort_moves_by_priority(b, me, moves) == SortedBy(moves, SortKeys(b, me, moves, 1, <<>>))

\* _minimax_root, lines 157-173: exactly one opponent immediate threat
SingleThreat(sb) ==
    IF sb.move # NoMove THEN Decided(sb.board, 15000, sb.move) ELSE Undecided(sb.board)

\* _minimax_root, lines 180-183
DominantThreat(b, most_dominant_threat) ==
    IF most_dominant_threat # NoMove THEN Decided(b, 13500, most_dominant_threat)
    ELSE Undecided(b)

\* _minimax_root, lines 175-183: several opponent immediate threats
MultiThreat(me, opponent_threats, bb) ==
    IF bb.move # NoMove THEN Decided(bb.board, 14000, bb.move)
    ELSE DominantThreat(bb.board, find_most_dominant_threat(bb.board, me, opponent_threats))

ThreatStageOn(b, me, valid_moves, opponent_threats) ==
    IF Len(opponent_threats) = 0 THEN Undecided(b)
    ELSE IF Len(opponent_threats) = 1
    THEN SingleThreat(SafeBlockProbe(b, me, valid_moves, opponent_threats, 1))
    ELSE MultiThreat(me, opponent_threats,
                     find_best_blocking_move(b, me, opponent_threats, valid_moves))

\* _minimax_root, lines 154-183: the blocking rules
ThreatStage(b, me, valid_moves) ==
    ThreatStageOn(b, me, valid_moves, find_immediate_threats(b, Other(me)))

\* any scored move is returned as a safe block
CounterVerdict_no_bar(cs) ==
    IF cs.score >= 200 THEN Decided(cs.board, 13000, cs.move)
    ELSE IF cs.move # NoMove THEN Decided(cs.board, 11000, cs.move)
    ELSE Undecided(cs.board)

\* _minimax_root, lines 222-227
CounterVerdict(cs) ==
    IF cs.score >= 200 THEN Decided(cs.board, 13000, cs.move)
    ELSE IF cs.move # NoMove /\ cs.score >= 150 THEN Decided(cs.board, 11000, cs.move)
    ELSE Undecided(cs.board)

CounterStageOn(b, me, valid_moves, opponent_dev_threats) ==
    IF Len(opponent_dev_threats) = 0 THEN Undecided(b)
    ELSE CounterVerdict(CounterScan(b, me, opponent_dev_threats, valid_moves, 1,
                                    NoMove, 0 - Inf))

\* _minimax_root, lines 186-229: the counter rule
CounterStage(b, me, valid_moves) ==
    CounterStageOn(b, me, valid_moves, find_developing_threats(b, Other(me)))

AfterThreatStage(me, valid_moves, ts) ==
    IF ts.decided THEN ts ELSE CounterStage(ts.board, me, valid_moves)

\* the blocking rules consulted before the win probe's verdict
WinAfterThreatStage(me, valid_moves, win, ts) ==
    IF ts.decided THEN ts
    ELSE IF win.move # NoMove THEN Decided(win.board, 20000, win.move)
    ELSE CounterStage(ts.board, me, valid_moves)

AfterWinProbe_blocks_first(me, valid_moves, win) ==
    WinAfterThreatStage(me, valid_moves, win, ThreatStage(win.board, me, valid_moves))

AfterWinProbe(me, valid_moves, win) ==
    IF win.move # NoMove THEN Decided(win.board, 20000, win.move)
    ELSE AfterThreatStage(me, valid_moves, ThreatStage(win.board, me, valid_moves))

\* _minimax_root, lines 143-229: the tactical rules in order
RootTactics(b, me, valid_moves) ==
    AfterWinProbe(me, valid_moves, WinProbe(b, me, valid_moves, 1))

\* ------------------------------------------------------------------------
\* State
\* ------------------------------------------------------------------------
VARIABLES
    driver,          \* "runner": tournament/runner.py play_one_game; "gui": gui/app.py QuantikGame
    ai,              \* per player: "minimax" (a QuantikAI instance) or "human" (GUI: ai_p1/ai_p2 is None)
    board,           \* the referee's QuantikBoard.board
    pieces_count,    \* pieces / self.pieces_count: Player -> Shape -> remaining
    current,         \* current / self.current_player
    winner,          \* 0 while the game runs, else the player declared winner
    game_enabled,    \* QuantikGame.game_enabled
    selected_shape,  \* QuantikGame.selected_shape (0 is None)
    rejected,        \* the last place_piece call of the game loop returned False
    pc,              \* where the decision computation of the player to move stands
    game_board,      \* get_move's working QuantikBoard: [cells, aliased]
    valid_moves,     \* get_move's valid_moves
    depth,           \* get_move's depth
    expired,         \* time.time() - start_time > self.max_time has been observed
    sorted_moves,    \* _minimax_root's sorted_moves
    root_i,          \* position of _minimax_root's search loop in sorted_moves
    root_old_piece,  \* _minimax_root's old_piece
    best_score,      \* _minimax_root's best_score
    best_move,       \* _minimax_root's best_move
    stack,           \* the active _minimax frames, innermost last
    call,            \* arguments of the _minimax call being entered
    ret,             \* value returned by the _minimax call that just returned
    result,          \* the value get_move returned
    nodes_evaluated, \* QuantikAI.nodes_evaluated of the deciding instance
    probe,           \* the last call made on the rules engine by a harness
    stats,           \* play_one_game's A_started, A_won_start, A_won_reply
    workers,         \* AIThinkingWorker threads started and neither finished nor terminated
    signals,         \* move_calculated emissions queued for _execute_ai_move
    games            \* calls of QuantikGame.new_game so far

vars == <<driver, ai, board, pieces_count, current, winner, game_enabled, selected_shape,
          rejected, pc, game_board, valid_moves, depth, expired, sorted_moves, root_i,
          root_old_piece, best_score, best_move, stack, call, ret, result,
          nodes_evaluated, probe, stats, workers, signals, games>>

gameVars == <<driver, ai, board, pieces_count, current, winner, game_enabled,
              selected_shape, rejected, stats, workers, signals, games>>
searchVars == <<game_board, valid_moves, depth, expired, sorted_moves, root_i,
                root_old_piece, best_score, best_move, stack, call, ret, result,
                nodes_evaluated>>

\* ------------------------------------------------------------------------
\* Initial positions: a finished, legally played board from which up to
\* MaxCleared of the last placements are taken back
\* ------------------------------------------------------------------------
P(s, p) == Piece(s, p)

BaseRows == << << P(1,1), P(3,1), P(2,2), P(1,1) >>,
               << P(4,1), P(3,1), P(2,2), P(4,1) >>,
               << P(3,2), P(4,2), P(4,2), P(2,1) >>,
               << P(3,2), P(1,2), P(1,2), P(2,1) >> >>

BaseBoard == [r \in Idx |-> [c \in Idx |-> BaseRows[r + 1][c + 1]]]

Cleared(b, S) == [r \in Idx |-> [c \in Idx |-> IF <<r, c>> \in S THEN None ELSE b[r][c]]]

OnBoard(b, player, shape) ==
    Cardinality({pos \in Cells : At(b, pos) = Piece(shape, player)})

CountOf(b, player) == Cardinality({pos \in Cells : At(b, pos) # None /\ At(b, pos).player = player})

\* the inventory the game loop holds when the board is b: 2 of each shape at
\* the start, one less per placement
InventoryFor(b) == [p \in Player |-> [s \in Shapes |-> 2 - OnBoard(b, p, s)]]

\* players alternate, so the player to move has placed as many pieces as the
\* other player, or one less
CanBeToMove(b, p) == CountOf(b, Other(p)) - CountOf(b, p) \in {0, 1}

InitBoards == {Cleared(BaseBoard, S) : S \in {T \in SUBSET Cells : Cardinality(T) <= MaxCleared}}

NoFrame == <<>>
NoCall == [depth |-> 0, alpha |-> 0, beta |-> 0, maximizing |-> FALSE]
NoBoard == [cells |-> EmptyBoard, aliased |-> FALSE]
NoProbe == [fn |-> "none"]
NoStats == [A_started |-> 0, A_won_start |-> 0, A_won_reply |-> 0]

\* play_one_game, lines 124-127
StatsAtStart(starter) ==
    [A_started |-> IF starter = PLAYER1 THEN 1 ELSE 0, A_won_start |-> 0, A_won_reply |-> 0]

\* players alternate from the starter on: the side to move started the game
\* when both have placed as many pieces
StarterOf(b, p) == IF CountOf(b, PLAYER1) = CountOf(b, PLAYER2) THEN p ELSE Other(p)

SearchIdle ==
    /\ game_board = NoBoard
    /\ valid_moves = <<>>
    /\ depth = 0
    /\ expired = FALSE
    /\ sorted_moves = <<>>
    /\ root_i = 0
    /\ root_old_piece = None
    /\ best_score = 0
    /\ best_move = NoMove
    /\ stack = <<>>
    /\ call = NoCall
    /\ ret = 0

InitGameOn(boards) ==
    /\ board \in boards
    /\ pieces_count = InventoryFor(board)
    /\ current \in {p \in Player : CanBeToMove(board, p)}
    /\ winner = 0
    /\ driver \in {"runner", "gui"}
    /\ ai \in [Player -> {"minimax", "human"}]
    /\ driver = "runner" => \A p \in Player : ai[p] = "minimax"
    \* new_game gives the first move to PLAYER1; play_one_game to its starter
    /\ driver = "gui" => (current = PLAYER1 <=> CountOf(board, PLAYER1) = CountOf(board, PLAYER2))
    \* _maybe_auto_play has started a worker when the side to move is an AI
    /\ game_enabled = (driver = "gui" /\ ai[current] = "human")
    \* the GUI ends the game as soon as the side to move is blocked
    /\ driver = "gui" => has_valid_moves(board, current)
    /\ selected_shape = 0
    /\ rejected = FALSE
    /\ stats = IF driver = "runner" THEN StatsAtStart(StarterOf(board, current)) ELSE NoStats
    /\ workers = IF driver = "gui" /\ ai[current] = "minimax" THEN 1 ELSE 0
    /\ signals = <<>>
    /\ games = 0

InitGame == InitGameOn(InitBoards)

Init ==
    /\ InitGame
    /\ pc = "idle"
    /\ SearchIdle
    /\ result = NoMove
    /\ nodes_evaluated = 0
    /\ probe = NoProbe

\* ------------------------------------------------------------------------
\* QuantikAI.get_move, step by step
\* ------------------------------------------------------------------------
\* list(board): a new outer list over the caller's own rows
RowCopies_shared(b) == [cells |-> b, aliased |-> TRUE]

\* [row[:] for row in board]: fresh row lists, shared with nobody
RowCopies(b) == [cells |-> b, aliased |-> FALSE]

\* A write to a cell of the working board lands in the caller's rows too when
\* the working board shares them
SeenByCaller(cells) == IF game_board.aliased THEN cells ELSE board

otherGameVars == <<driver, ai, pieces_count, current, winner, game_enabled,
                   selected_shape, rejected, stats, workers, signals, games>>

\* time.time() - start_time > self.max_time: false until the deadline passes,
\* true ever after
DeadlineReadings == IF expired THEN {TRUE} ELSE {FALSE, TRUE}

Deciding ==
    /\ winner = 0
    /\ ai[current] = "minimax"
    /\ driver = "gui" => (~game_enabled /\ workers = 1)

\* get_move has returned: its locals are gone, except that game_board and
\* expired keep what they were at the return
ClearLocals ==
    /\ valid_moves' = <<>>
    /\ depth' = 0
    /\ sorted_moves' = <<>>
    /\ root_i' = 0
    /\ root_old_piece' = None
    /\ stack' = <<>>
    /\ call' = NoCall
    /\ ret' = 0

\* get_move, lines 30-43: copy the board, generate the moves, choose the depth
GetMoveEnter ==
    /\ pc = "idle"
    /\ Deciding
    /\ games < MaxGames
    /\ LET gb == RowCopies(board)
           vm == generate_all_valid_moves(gb.cells, current)
       IN  IF vm = <<>>
           THEN /\ result' = NoMove
                /\ pc' = "done"
                /\ best_score' = 0
                /\ best_move' = NoMove
                /\ game_board' = gb
                /\ expired' = FALSE
                /\ ClearLocals
                /\ UNCHANGED nodes_evaluated
           ELSE /\ game_board' = gb
                /\ valid_moves' = vm
                /\ depth' = calculate_optimal_depth(pieces_played_on(gb.cells))
                /\ nodes_evaluated' = 0
                /\ expired' = FALSE
                /\ pc' = "root"
                /\ UNCHANGED <<sorted_moves, root_i, root_old_piece, best_score,
                               best_move, stack, call, ret, result>>
    /\ UNCHANGED <<board, otherGameVars, probe>>

\* a search that starts from the best score and move of the decision before
RootSearch_keep_best(sm) ==
    /\ game_board' = [game_board EXCEPT !.cells = sm.board]
    /\ board' = SeenByCaller(sm.board)
    /\ sorted_moves' = sm.moves
    /\ root_i' = 1
    /\ pc' = "root_loop"
    /\ UNCHANGED <<valid_moves, depth, expired, root_old_piece, best_score, best_move,
                   stack, call, ret, result>>

\* _minimax_root, lines 231-233: the ordered moves and the start of the loop
RootSearch(sm) ==
    /\ game_board' = [game_board EXCEPT !.cells = sm.board]
    /\ board' = SeenByCaller(sm.board)
    /\ sorted_moves' = sm.moves
    /\ root_i' = 1
    /\ best_score' = 0 - Inf
    /\ best_move' = NoMove
    /\ pc' = "root_loop"
    /\ UNCHANGED <<valid_moves, depth, expired, root_old_piece, stack, call, ret, result>>

\* _minimax_root, lines 143-229: a tactical rule returns, or the search starts
RootDecide(root_valid_moves, t) ==
    IF t.decided
    THEN /\ best_score' = t.score
         /\ best_move' = t.move
         /\ result' = t.move
         /\ pc' = "done"
         /\ game_board' = [game_board EXCEPT !.cells = t.board]
         /\ board' = SeenByCaller(t.board)
         /\ UNCHANGED expired
         /\ ClearLocals
    ELSE RootSearch(sort_moves_by_priority(t.board, current, root_valid_moves))

\* _minimax_root, lines 137-139: no valid move
RootOn(root_valid_moves) ==
    IF root_valid_moves = <<>>
    THEN /\ best_score' = 0
         /\ best_move' = NoMove
         /\ result' = emergency_move_selection(game_board.cells, valid_moves)
         /\ pc' = "done"
         /\ UNCHANGED <<board, game_board, expired>>
         /\ ClearLocals
    ELSE RootDecide(root_valid_moves, RootTactics(game_board.cells, current, root_valid_moves))

\* _minimax_root, lines 133-233: the tactical rules, then the move ordering
MinimaxRootTactics ==
    /\ pc = "root"
    /\ RootOn(generate_all_valid_moves(game_board.cells, current))
    /\ UNCHANGED <<otherGameVars, nodes_evaluated, probe>>

\* _minimax_root, lines 235-245: one turn of the search loop up to the call
MinimaxRootLoop ==
    /\ pc = "root_loop"
    /\ \E late \in DeadlineReadings :
        IF root_i > Len(sorted_moves)
        THEN /\ pc' = "root_end"
             /\ UNCHANGED <<board, game_board, expired, root_old_piece, call>>
        ELSE IF late
        THEN /\ expired' = TRUE
             /\ pc' = "root_end"
             /\ UNCHANGED <<board, game_board, root_old_piece, call>>
        ELSE LET row == sorted_moves[root_i][1]
                 col == sorted_moves[root_i][2]
                 shape == sorted_moves[root_i][3]
                 cells == Simulate(game_board.cells, row, col, Piece(shape, current))
             IN  /\ root_old_piece' = game_board.cells[row][col]
                 /\ game_board' = [game_board EXCEPT !.cells = cells]
                 /\ board' = SeenByCaller(cells)
                 /\ call' = [depth |-> depth - 1, alpha |-> 0 - Inf, beta |-> Inf,
                             maximizing |-> FALSE]
                 /\ pc' = "call"
                 /\ UNCHANGED expired
    /\ UNCHANGED <<otherGameVars, valid_moves, depth, sorted_moves, root_i, best_score,
                   best_move, stack, ret, result, nodes_evaluated, probe>>

\* _minimax, lines 265-291 and 310: entry of a call up to its move loop
MinimaxEnter ==
    /\ pc = "call"
    /\ \E late \in DeadlineReadings :
        LET b == game_board.cells
            current_player == IF call.maximizing THEN current ELSE Other(current)
            moves == generate_all_valid_moves(b, current_player)
        IN  IF late
            THEN /\ expired' = TRUE
                 /\ ret' = 0
                 /\ pc' = "ret"
                 /\ UNCHANGED <<stack, nodes_evaluated>>
            ELSE /\ nodes_evaluated' = nodes_evaluated + 1
                 /\ UNCHANGED expired
                 /\ IF check_victory(b)
                    THEN /\ ret' = IF is_winner(b, current)
                                   THEN 10000 - (10 - call.depth)
                                   ELSE (0 - 10000) + (10 - call.depth)
                         /\ pc' = "ret"
                         /\ UNCHANGED stack
                    ELSE IF call.depth = 0
                    THEN /\ ret' = evaluate_position(b, current)
                         /\ pc' = "ret"
                         /\ UNCHANGED stack
                    ELSE IF moves = <<>>
                    THEN /\ ret' = 0
                         /\ pc' = "ret"
                         /\ UNCHANGED stack
                    ELSE /\ stack' = Append(stack,
                                [depth |-> call.depth, alpha |-> call.alpha, beta |-> call.beta,
                                 maximizing |-> call.maximizing, valid_moves |-> moves, i |-> 1,
                                 eval |-> IF call.maximizing THEN 0 - Inf ELSE Inf,
                                 old_piece |-> None, entry |-> b])
                         /\ pc' = "loop"
                         /\ UNCHANGED ret
    /\ call' = NoCall
    /\ UNCHANGED <<board, otherGameVars, game_board, valid_moves, depth, sorted_moves,
                   root_i, root_old_piece, best_score, best_move, result, probe>>

Top == stack[Len(stack)]

SetTop(f) == [stack EXCEPT ![Len(stack)] = f]

\* _minimax, lines 293-297 / 312-316: simulate the next move and recurse
MinimaxLoop ==
    /\ pc = "loop"
    /\ LET f == Top
           row == f.valid_moves[f.i][1]
           col == f.valid_moves[f.i][2]
           shape == f.valid_moves[f.i][3]
           current_player == IF f.maximizing THEN current ELSE Other(current)
           cells == Simulate(game_board.cells, row, col, Piece(shape, current_player))
       IN  /\ stack' = SetTop([f EXCEPT !.old_piece = game_board.cells[row][col]])
           /\ game_board' = [game_board EXCEPT !.cells = cells]
           /\ board' = SeenByCaller(cells)
           /\ call' = [depth |-> f.depth - 1, alpha |-> f.alpha, beta |-> f.beta,
                       maximizing |-> ~f.maximizing]
    /\ pc' = "call"
    /\ UNCHANGED <<otherGameVars, valid_moves, depth, expired, sorted_moves, root_i,
                   root_old_piece, best_score, best_move, ret, result, nodes_evaluated, probe>>

\* the loop left after its first move, whatever the window
MinimaxResume_cut_first ==
    /\ pc = "ret"
    /\ stack # <<>>
    /\ LET f == Top
           row == f.valid_moves[f.i][1]
           col == f.valid_moves[f.i][2]
           eval_score == ret
           cells == Restore(game_board.cells, row, col, f.old_piece)
           eval == IF f.maximizing THEN Max(f.eval, eval_score) ELSE Min(f.eval, eval_score)
       IN  /\ game_board' = [game_board EXCEPT !.cells = cells]
           /\ board' = SeenByCaller(cells)
           /\ stack' = SetTop([f EXCEPT !.eval = eval])
           /\ pc' = "exit"
    /\ UNCHANGED <<otherGameVars, valid_moves, depth, expired, sorted_moves, root_i,
                   root_old_piece, best_score, best_move, call, ret, result,
                   nodes_evaluated, probe>>

\* _minimax, lines 299-305 / 318-324: the recursive call has returned
MinimaxResume ==
    /\ pc = "ret"
    /\ stack # <<>>
    /\ LET f == Top
           row == f.valid_moves[f.i][1]
           col == f.valid_moves[f.i][2]
           eval_score == ret
           cells == Restore(game_board.cells, row, col, f.old_piece)
           eval == IF f.maximizing THEN Max(f.eval, eval_score) ELSE Min(f.eval, eval_score)
           alpha == IF f.maximizing THEN Max(f.alpha, eval_score) ELSE f.alpha
           beta == IF f.maximizing THEN f.beta ELSE Min(f.beta, eval_score)
           cut == beta <= alpha
           last == f.i = Len(f.valid_moves)
       IN  /\ game_board' = [game_board EXCEPT !.cells = cells]
           /\ board' = SeenByCaller(cells)
           /\ stack' = SetTop([f EXCEPT !.eval = eval, !.alpha = alpha, !.beta = beta,
                                        !.i = IF cut \/ last THEN f.i ELSE f.i + 1])
           /\ pc' = IF cut \/ last THEN "exit" ELSE "loop"
    /\ UNCHANGED <<otherGameVars, valid_moves, depth, expired, sorted_moves, root_i,
                   root_old_piece, best_score, best_move, call, ret, result,
                   nodes_evaluated, probe>>

\* _minimax, lines 307 / 326: return max_eval / min_eval
MinimaxExit ==
    /\ pc = "exit"
    /\ ret' = Top.eval
    /\ stack' = SubSeq(stack, 1, Len(stack) - 1)
    /\ pc' = "ret"
    /\ UNCHANGED <<board, otherGameVars, game_board, valid_moves, depth, expired,
                   sorted_moves, root_i, root_old_piece, best_score, best_move, call,
                   result, nodes_evaluated, probe>>

\* _minimax_root, lines 245-253: the search of a root move has returned
MinimaxRootResume ==
    /\ pc = "ret"
    /\ stack = <<>>
    /\ LET row == sorted_moves[root_i][1]
           col == sorted_moves[root_i][2]
           score == ret
           cells == Restore(game_board.cells, row, col, root_old_piece)
       IN  /\ game_board' = [game_board EXCEPT !.cells = cells]
           /\ board' = SeenByCaller(cells)
           /\ IF score > best_score
              THEN best_score' = score /\ best_move' = sorted_moves[root_i]
              ELSE UNCHANGED <<best_score, best_move>>
    /\ root_i' = root_i + 1
    /\ pc' = "root_loop"
    /\ UNCHANGED <<otherGameVars, valid_moves, depth, expired, sorted_moves,
                   root_old_piece, stack, call, ret, result, nodes_evaluated, probe>>

\* get_move, lines 49-54: the move _minimax_root returned, or the fallback
RootReturns(returned) ==
    /\ best_move' = returned
    /\ result' = IF returned = NoMove /\ valid_moves # <<>>
                 THEN emergency_move_selection(game_board.cells, valid_moves)
                 ELSE returned

\* _minimax_root, lines 255-259 (its valid_moves is the list get_move holds:
\* both were generated from the same cells), and get_move, lines 49-54
MinimaxRootReturn ==
    /\ pc = "root_end"
    /\ RootReturns(IF best_move = NoMove /\ valid_moves # <<>> THEN valid_moves[1]
                    ELSE best_move)
    /\ pc' = "done"
    /\ ClearLocals
    /\ UNCHANGED <<board, otherGameVars, game_board, expired, best_score, nodes_evaluated,
                   probe>>

\* get_move, lines 56-58: an exception escaped _minimax_root
GetMoveExcept ==
    /\ pc \in {"root", "root_loop", "call", "loop", "ret", "exit", "root_end"}
    /\ result' = emergency_move_selection(game_board.cells, valid_moves)
    /\ pc' = "done"
    /\ ClearLocals
    /\ UNCHANGED <<board, otherGameVars, game_board, expired, best_score, best_move,
                   nodes_evaluated, probe>>

\* ------------------------------------------------------------------------
\* tournament/runner.py : play_one_game, lines 138-175, after get_move
\* ------------------------------------------------------------------------
\* a decrement that stops at zero
Decrement_floor(pieces, player, shape) ==
    [pieces EXCEPT ![player][shape] = IF @ > 0 THEN @ - 1 ELSE @]

\* pieces[current][shape] -= 1
Decrement(pieces, player, shape) == [pieces EXCEPT ![player][shape] = @ - 1]

\* the tally always credited to the games A started
Tally_start_only(st, w) ==
    IF w = PLAYER1 THEN [st EXCEPT !.A_won_start = 1] ELSE st

\* play_one_game, lines 141-143 (and 153-155, 165-167): the tally of a win
Tally(st, w) ==
    IF w = PLAYER1
    THEN IF st.A_started = 1 THEN [st EXCEPT !.A_won_start = 1]
         ELSE [st EXCEPT !.A_won_reply = 1]
    ELSE st

\* a loop that passes the turn when get_move returns no move
RunnerApply_pass_on_none ==
    /\ driver = "runner"
    /\ pc = "done"
    /\ winner = 0
    /\ IF result = NoMove
       THEN /\ current' = Other(current)
            /\ UNCHANGED <<board, pieces_count, winner, stats, rejected>>
       ELSE LET placed == place_piece(board, result[1], result[2], Piece(result[3], current))
            IN  /\ board' = placed.board
                /\ rejected' = ~placed.ret
                /\ pieces_count' = Decrement(pieces_count, current, result[3])
                /\ winner' = IF check_victory(placed.board) THEN current ELSE 0
                /\ UNCHANGED <<current, stats>>
    /\ pc' = "idle"
    /\ UNCHANGED <<driver, ai, game_enabled, selected_shape, searchVars, probe, workers,
                   signals, games>>

\* play_one_game, lines 138-175: the move get_move returned is applied
RunnerApply ==
    /\ driver = "runner"
    /\ pc = "done"
    /\ winner = 0
    /\ IF result = NoMove
       THEN /\ winner' = Other(current)
            /\ stats' = Tally(stats, Other(current))
            /\ UNCHANGED <<board, pieces_count, current, rejected>>
       ELSE LET placed == place_piece(board, result[1], result[2], Piece(result[3], current))
            IN  IF ~placed.ret
                THEN /\ winner' = Other(current)
                     /\ stats' = Tally(stats, Other(current))
                     /\ rejected' = TRUE
                     /\ board' = placed.board
                     /\ UNCHANGED <<pieces_count, current>>
                ELSE /\ board' = placed.board
                     /\ rejected' = FALSE
                     /\ pieces_count' = Decrement(pieces_count, current, result[3])
                     /\ IF check_victory(placed.board)
                        THEN /\ winner' = current
                             /\ stats' = Tally(stats, current)
                             /\ UNCHANGED current
                        ELSE /\ current' = Other(current)
                             /\ UNCHANGED <<winner, stats>>
    /\ pc' = "idle"
    /\ UNCHANGED <<driver, ai, game_enabled, selected_shape, searchVars, probe, workers,
                   signals, games>>

\* ------------------------------------------------------------------------
\* gui/app.py : QuantikGame
\* ------------------------------------------------------------------------
\* _maybe_auto_play, entered with game_enabled as given, for the side to move
\* `next` of the players `sel`: an AI to move gets a worker and the board is
\* locked until _execute_ai_move
MaybeAutoPlay(sel, next, enabled) ==
    IF sel[next] = "minimax" /\ enabled
    THEN game_enabled' = FALSE /\ workers' = workers + 1
    ELSE game_enabled' = enabled /\ UNCHANGED workers

\* The main thread's handlers are followed while at most one worker runs
\* (OneWorker): the model holds the position of one computation only.
OneWorker == workers <= 1

\* select_shape
GuiSelectShape(shape, player) ==
    /\ driver = "gui"
    /\ OneWorker
    /\ winner = 0
    /\ game_enabled
    /\ player = current
    /\ ai[current] = "human"
    /\ pieces_count[current][shape] > 0
    /\ selected_shape' = shape
    /\ UNCHANGED <<driver, ai, board, pieces_count, current, winner, game_enabled,
                   rejected, pc, searchVars, probe, stats, workers, signals, games>>

\* place_piece (a click on a cell), with show_victory / show_no_moves up to
\* their modal dialog (winner # 0 from then on) and _maybe_auto_play
GuiPlacePiece(row, col) ==
    /\ driver = "gui"
    /\ OneWorker
    /\ winner = 0
    /\ game_enabled
    /\ ai[current] = "human"
    /\ selected_shape # 0
    /\ games > 0 => pieces_played_on(board) < MaxPlaced
    /\ LET placed == place_piece(board, row, col, Piece(selected_shape, current))
           next == Other(current)
       IN  IF placed.ret
           THEN /\ board' = placed.board
                /\ rejected' = FALSE
                /\ pieces_count' = Decrement(pieces_count, current, selected_shape)
                /\ IF check_victory(placed.board)
                   THEN /\ winner' = current
                        /\ UNCHANGED <<current, selected_shape, game_enabled, workers>>
                   ELSE /\ current' = next
                        /\ selected_shape' = 0
                        /\ IF ~has_valid_moves(placed.board, next)
                           THEN winner' = current /\ UNCHANGED <<game_enabled, workers>>
                           ELSE /\ UNCHANGED winner
                                /\ MaybeAutoPlay(ai, next, TRUE)
           ELSE /\ rejected' = TRUE
                /\ board' = placed.board
                /\ UNCHANGED <<pieces_count, current, winner, selected_shape, game_enabled,
                               workers>>
    /\ UNCHANGED <<driver, ai, pc, searchVars, probe, stats, signals, games>>

\* AIThinkingWorker.run, lines 58-62: get_move has returned, its result is
\* emitted (queued for the main thread) and the thread ends
WorkerEmit ==
    /\ driver = "gui"
    /\ pc = "done"
    /\ workers = 1
    /\ signals' = Append(signals, result)
    /\ workers' = workers - 1
    /\ pc' = "idle"
    /\ UNCHANGED <<driver, ai, board, pieces_count, current, winner, game_enabled,
                   selected_shape, rejected, searchVars, probe, stats, games>>

\* _execute_ai_move, run by the main thread on the oldest queued emission
GuiExecuteAiMove ==
    /\ driver = "gui"
    /\ OneWorker
    /\ signals # <<>>
    /\ winner = 0
    /\ games > 0 => pieces_played_on(board) < MaxPlaced
    /\ LET move == Head(signals)
           next == Other(current)
       IN  IF move = NoMove
           THEN /\ winner' = next
                /\ UNCHANGED <<board, pieces_count, current, game_enabled, rejected, workers>>
           ELSE LET placed == place_piece(board, move[1], move[2], Piece(move[3], current))
                IN  IF placed.ret
                    THEN /\ board' = placed.board
                         /\ rejected' = FALSE
                         /\ pieces_count' = Decrement(pieces_count, current, move[3])
                         /\ IF check_victory(placed.board)
                            THEN /\ winner' = current
                                 /\ UNCHANGED <<current, game_enabled, workers>>
                            ELSE /\ current' = next
                                 /\ IF ~has_valid_moves(placed.board, next)
                                    THEN /\ winner' = current
                                         /\ game_enabled' = TRUE
                                         /\ UNCHANGED workers
                                    ELSE /\ UNCHANGED winner
                                         /\ MaybeAutoPlay(ai, next, TRUE)
                    ELSE /\ rejected' = TRUE
                         /\ game_enabled' = TRUE
                         /\ board' = placed.board
                         /\ UNCHANGED <<pieces_count, current, winner, workers>>
    /\ signals' = Tail(signals)
    /\ UNCHANGED <<driver, ai, selected_shape, pc, searchVars, probe, stats, games>>

\* new_game (the "apply" button, or the button of the end-of-game dialog): a
\* running worker is terminated, the game state is built anew with the
\* players chosen in the combo boxes, and _maybe_auto_play is called.
\* Emissions already queued stay queued.
GuiNewGame(sel) ==
    /\ driver = "gui"
    /\ OneWorker
    /\ games < MaxGames
    /\ games' = games + 1
    /\ board' = EmptyBoard
    /\ current' = PLAYER1
    /\ selected_shape' = 0
    /\ pieces_count' = InventoryFor(EmptyBoard)
    /\ ai' = sel
    /\ winner' = 0
    /\ rejected' = FALSE
    /\ game_enabled' = (sel[PLAYER1] = "human")
    /\ workers' = IF sel[PLAYER1] = "minimax" THEN 1 ELSE 0
    /\ pc' = "idle"
    /\ game_board' = NoBoard
    /\ expired' = FALSE
    /\ best_score' = 0
    /\ best_move' = NoMove
    /\ result' = NoMove
    /\ nodes_evaluated' = 0
    /\ ClearLocals
    /\ UNCHANGED <<driver, probe, stats, signals>>

\* ------------------------------------------------------------------------
\* The rules engine and the move generator called directly on a position, as
\* QuantikTestSuite does: each call leaves its arguments and result in probe.
\* A run places at most one piece on its position and ends with one query.
\* ------------------------------------------------------------------------
\* QuantikBoard.is_valid_move and QuantikAI._is_move_valid on the same input
ProbeIsValidMove(row, col, shape, player) ==
    /\ driver = "suite"
    /\ pc \in {"idle", "placed"}
    /\ probe' = [fn |-> "is_valid_move", row |-> row, col |-> col,
                 piece |-> Piece(shape, player),
                 ret |-> is_valid_move(board, row, col, Piece(shape, player)),
                 ai_ret |-> is_move_valid(board, row, col, Piece(shape, player))]
    /\ pc' = "done"
    /\ UNCHANGED <<gameVars, searchVars>>

\* a refused placement ends the run, as it ends play_one_game
PlacePieceOn(before, row, col, piece, placed) ==
    /\ board' = placed.board
    /\ probe' = [fn |-> "place_piece", row |-> row, col |-> col, piece |-> piece,
                 before |-> before, ret |-> placed.ret]
    /\ pc' = IF placed.ret THEN "placed" ELSE "done"

\* QuantikBoard.place_piece
ProbePlacePiece(row, col, shape, player) ==
    /\ driver = "suite"
    /\ pc = "idle"
    /\ PlacePieceOn(board, row, col, Piece(shape, player),
                    place_piece(board, row, col, Piece(shape, player)))
    /\ UNCHANGED <<otherGameVars, searchVars>>

\* QuantikBoard.check_victory
ProbeCheckVictory ==
    /\ driver = "suite"
    /\ pc \in {"idle", "placed"}
    /\ probe' = [fn |-> "check_victory", ret |-> check_victory(board)]
    /\ pc' = "done"
    /\ UNCHANGED <<gameVars, searchVars>>

\* QuantikAI._generate_all_valid_moves, called twice in a row
ProbeGenerate(player) ==
    /\ driver = "suite"
    /\ pc \in {"idle", "placed"}
    /\ probe' = [fn |-> "generate_all_valid_moves", player |-> player, before |-> board,
                 ret |-> generate_all_valid_moves(board, player),
                 again |-> generate_all_valid_moves(board, player)]
    /\ pc' = "done"
    /\ UNCHANGED <<gameVars, searchVars>>

\* QuantikAI._find_immediate_threats and _find_developing_threats
ProbeThreats(player) ==
    /\ driver = "suite"
    /\ pc \in {"idle", "placed"}
    /\ probe' = [fn |-> "find_threats", player |-> player, before |-> board,
                 immediate |-> find_immediate_threats(board, player),
                 developing |-> find_developing_threats(board, player)]
    /\ pc' = "done"
    /\ UNCHANGED <<gameVars, searchVars>>

\* the positions the suite calls the rules on: the new board of QuantikBoard()
\* and the finished board with up to MaxProbed placements taken back
ProbedBoards ==
    {Cleared(BaseBoard, S) : S \in {T \in SUBSET Cells : Cardinality(T) <= MaxProbed \/ T = Cells}}

InitRules ==
    /\ board \in ProbedBoards
    /\ pieces_count = InventoryFor(board)
    /\ current = PLAYER1
    /\ winner = 0
    /\ driver = "suite"
    /\ ai = [p \in Player |-> "minimax"]
    /\ game_enabled = FALSE
    /\ selected_shape = 0
    /\ rejected = FALSE
    /\ pc = "idle"
    /\ SearchIdle
    /\ result = NoMove
    /\ nodes_evaluated = 0
    /\ probe = NoProbe
    /\ stats = NoStats
    /\ workers = 0
    /\ signals = <<>>
    /\ games = 0

NextRules ==
    \/ \E row \in Idx, col \in Idx, shape \in Shapes, player \in Player :
            ProbeIsValidMove(row, col, shape, player)
    \/ \E row \in Idx, col \in Idx, shape \in Shapes, player \in Player :
            ProbePlacePiece(row, col, shape, player)
    \/ ProbeCheckVictory
    \/ \E player \in Player : ProbeGenerate(player)
    \/ \E player \in Player : ProbeThreats(player)

SpecRules == InitRules /\ [][NextRules]_vars

\* ------------------------------------------------------------------------
\* The evaluator and the emergency selector called directly, as
\* QuantikTestSuite does
\* ------------------------------------------------------------------------
\* the seven maps of the board onto itself that keep rows, columns and zones:
\* half turn, the two axis flips, the two diagonal flips, the quarter turns
Mirror(k, pos) ==
    IF k = 1 THEN <<3 - pos[1], 3 - pos[2]>>
    ELSE IF k = 2 THEN <<pos[1], 3 - pos[2]>>
    ELSE IF k = 3 THEN <<3 - pos[1], pos[2]>>
    ELSE IF k = 4 THEN <<pos[2], pos[1]>>
    ELSE IF k = 5 THEN <<3 - pos[2], 3 - pos[1]>>
    ELSE IF k = 6 THEN <<pos[2], 3 - pos[1]>>
    ELSE <<3 - pos[2], pos[1]>>

\* the owners of all pieces exchanged and the board carried along map k
\* gives the same position again
IsMirrored(b, k) ==
    \A pos \in Cells :
        At(b, Mirror(k, pos)) = IF At(b, pos) = None THEN None
                                ELSE Piece(At(b, pos).shape, Other(At(b, pos).player))

\* every piece of the position could have been placed last, and nobody has won
IsPlayable(b) ==
    /\ \A pos \in Cells :
          At(b, pos) # None => is_valid_move(Cleared(b, {pos}), pos[1], pos[2], At(b, pos))
    /\ ~check_victory(b)

\* PLAYER1's pieces Q and, for each, PLAYER2's piece of the same shape on the
\* image of its cell
MirroredBoard(Q, k) ==
    [r \in Idx |-> [c \in Idx |->
        IF \E q \in Q : <<q[1], q[2]>> = <<r, c>>
        THEN Piece((CHOOSE q \in Q : <<q[1], q[2]>> = <<r, c>>)[3], PLAYER1)
        ELSE IF \E q \in Q : Mirror(k, <<q[1], q[2]>>) = <<r, c>>
        THEN Piece((CHOOSE q \in Q : Mirror(k, <<q[1], q[2]>>) = <<r, c>>)[3], PLAYER2)
        ELSE None]]

RECURSIVE PieceSetsUpTo(_)
PieceSetsUpTo(n) ==
    IF n = 0 THEN {{}}
    ELSE {Q \cup {q} : Q \in PieceSetsUpTo(n - 1), q \in Idx \X Idx \X Shapes} \cup {{}}

\* the empty board and the playable positions of up to MaxMirrored pieces a
\* side that are the same for both players
MirroredBoards ==
    {b \in {MirroredBoard(Q, k) : Q \in PieceSetsUpTo(MaxMirrored), k \in 1..7} :
        IsPlayable(b) /\ \E k \in 1..7 : IsMirrored(b, k)}

RECURSIVE MoveListsUpTo(_)
MoveListsUpTo(n) ==
    IF n = 0 THEN {<<>>}
    ELSE {Append(l, m) : l \in MoveListsUpTo(n - 1), m \in Idx \X Idx \X Shapes} \cup {<<>>}

\* QuantikAI._evaluate_position of the AI playing `me`
ProbeEvaluate(me) ==
    /\ driver = "suite"
    /\ pc = "idle"
    /\ probe' = [fn |-> "evaluate_position", me |-> me, ret |-> evaluate_position(board, me)]
    /\ pc' = "done"
    /\ UNCHANGED <<gameVars, searchVars>>

\* QuantikAI._emergency_move_selection on a new QuantikBoard() and a list
ProbeEmergency ==
    /\ driver = "suite"
    /\ pc = "idle"
    /\ board = EmptyBoard
    /\ \E moves \in MoveListsUpTo(MaxListed) :
          probe' = [fn |-> "emergency_move_selection", valid_moves |-> moves,
                    ret |-> emergency_move_selection(board, moves)]
    /\ pc' = "done"
    /\ UNCHANGED <<gameVars, searchVars>>

\* QuantikAI._calculate_optimal_depth on a number of pieces a board can hold
ProbeDepth ==
    /\ driver = "suite"
    /\ pc = "idle"
    /\ \E n \in 0..Cardinality(Cells) :
          probe' = [fn |-> "calculate_optimal_depth", pieces_played |-> n,
                    ret |-> calculate_optimal_depth(n)]
    /\ pc' = "done"
    /\ UNCHANGED <<gameVars, searchVars>>

InitHeuristics ==
    /\ board \in MirroredBoards
    /\ pieces_count = InventoryFor(board)
    /\ current = PLAYER1
    /\ winner = 0
    /\ driver = "suite"
    /\ ai = [p \in Player |-> "minimax"]
    /\ game_enabled = FALSE
    /\ selected_shape = 0
    /\ rejected = FALSE
    /\ pc = "idle"
    /\ SearchIdle
    /\ result = NoMove
    /\ nodes_evaluated = 0
    /\ probe = NoProbe
    /\ stats = NoStats
    /\ workers = 0
    /\ signals = <<>>
    /\ games = 0

NextHeuristics ==
    \/ \E me \in Player : ProbeEvaluate(me)
    \/ ProbeEmergency
    \/ ProbeDepth

SpecHeuristics == InitHeuristics /\ [][NextHeuristics]_vars

Decide ==
    \/ GetMoveEnter
    \/ MinimaxRootTactics
    \/ MinimaxRootLoop
    \/ MinimaxEnter
    \/ MinimaxLoop
    \/ MinimaxResume
    \/ MinimaxExit
    \/ MinimaxRootResume
    \/ MinimaxRootReturn

Next ==
    \/ Decide
    \/ RunnerApply
    \/ WorkerEmit
    \/ GuiExecuteAiMove
    \/ \E shape \in Shapes, player \in Player : GuiSelectShape(shape, player)
    \/ \E row \in Idx, col \in Idx : GuiPlacePiece(row, col)

Spec == Init /\ [][Next]_vars

\* A session of the GUI in which "new game" is pressed
InitGui == Init /\ driver = "gui"

NextGui ==
    \/ Decide
    \/ WorkerEmit
    \/ GuiExecuteAiMove
    \/ \E shape \in Shapes, player \in Player : GuiSelectShape(shape, player)
    \/ \E row \in Idx, col \in Idx : GuiPlacePiece(row, col)
    \/ \E sel \in [Player -> {"minimax", "human"}] : GuiNewGame(sel)

SpecGui == InitGui /\ [][NextGui]_vars

\* ------------------------------------------------------------------------
\* QuantikAI._minimax entered on a position with the full window, as
\* _minimax_root enters it (line 245), at each remaining depth; the run ends
\* when the call returns. probe keeps the arguments of the call.
\* ------------------------------------------------------------------------
\* the finished board with up to MaxProbed placements taken back
SearchedBoards ==
    {Cleared(BaseBoard, S) : S \in {T \in SUBSET Cells : Cardinality(T) <= MaxProbed}}

InitSearch ==
    /\ board \in SearchedBoards
    /\ pieces_count = InventoryFor(board)
    /\ current \in Player
    /\ winner = 0
    /\ driver = "search"
    /\ ai = [p \in Player |-> "minimax"]
    /\ game_enabled = FALSE
    /\ selected_shape = 0
    /\ rejected = FALSE
    /\ pc = "call"
    /\ game_board = RowCopies(board)
    /\ \E d \in 0..MaxDepth, m \in BOOLEAN :
            /\ call = [depth |-> d, alpha |-> 0 - Inf, beta |-> Inf, maximizing |-> m]
            /\ probe = [fn |-> "minimax", depth |-> d, maximizing |-> m]
    /\ valid_moves = <<>>
    /\ depth = 0
    /\ expired = FALSE
    /\ sorted_moves = <<>>
    /\ root_i = 0
    /\ root_old_piece = None
    /\ best_score = 0
    /\ best_move = NoMove
    /\ stack = <<>>
    /\ ret = 0
    /\ result = NoMove
    /\ nodes_evaluated = 0
    /\ stats = NoStats
    /\ workers = 0
    /\ signals = <<>>
    /\ games = 0

NextSearch ==
    \/ MinimaxEnter
    \/ MinimaxLoop
    \/ MinimaxResume
    \/ MinimaxExit

SpecSearch == InitSearch /\ [][NextSearch]_vars

\* ------------------------------------------------------------------------
\* Games followed from a position of a legally played game in which PLAYER1
\* holds several immediate threats and PLAYER2 is to move, and from the
\* positions up to MaxTaken placements before it
\* ------------------------------------------------------------------------
ThreatRows == << << P(3,1), P(3,1), P(2,1), P(1,2) >>,
                 << P(1,2), P(4,1), P(3,2), None >>,
                 << P(4,2), P(1,1), P(3,2), None >>,
                 << None, P(1,1), P(2,1), P(4,2) >> >>

ThreatBoard == [r \in Idx |-> [c \in Idx |-> ThreatRows[r + 1][c + 1]]]

TacticBoards ==
    {Cleared(ThreatBoard, S) : S \in {T \in SUBSET Cells : Cardinality(T) <= MaxTaken}}

InitTactics ==
    /\ InitGameOn(TacticBoards)
    /\ pc = "idle"
    /\ SearchIdle
    /\ result = NoMove
    /\ nodes_evaluated = 0
    /\ probe = NoProbe

SpecTactics == InitTactics /\ [][Next]_vars

\* ------------------------------------------------------------------------
\* The tactical rules of _minimax_root on the positions of an opening: a
\* position after eight placements and the positions up to MaxOpened placements
\* before it. The search that follows when no rule decides is followed in
\* the other specifications.
\* ------------------------------------------------------------------------
OpeningRows == << << None, None, P(4,1), P(4,1) >>,
                  << None, None, P(3,1), P(3,1) >>,
                  << None, P(3,2), None, P(2,2) >>,
                  << None, P(1,2), None, P(2,2) >> >>

OpeningBoard == [r \in Idx |-> [c \in Idx |-> OpeningRows[r + 1][c + 1]]]

OpeningBoards ==
    {Cleared(OpeningBoard, S) : S \in {T \in SUBSET Cells : Cardinality(T) <= MaxOpened}}

InitOpening ==
    /\ InitGameOn(OpeningBoards)
    /\ pc = "idle"
    /\ SearchIdle
    /\ result = NoMove
    /\ nodes_evaluated = 0
    /\ probe = NoProbe

NextOpening ==
    \/ GetMoveEnter
    \/ MinimaxRootTactics

SpecOpening == InitOpening /\ [][NextOpening]_vars

\* ------------------------------------------------------------------------
\* Placements made one after the other on the board of QuantikBoard(), by any
\* player and in any order: every position place_piece can lead to
\* ------------------------------------------------------------------------
\* QuantikBoard.place_piece on the position the earlier calls have left
PlayPlacePiece ==
    /\ driver = "suite"
    /\ pc \in {"idle", "placed"}
    /\ pieces_played_on(board) < MaxPlayed
    /\ \E row \in Idx, col \in Idx, shape \in Shapes, player \in Player :
        LET placed == place_piece(board, row, col, Piece(shape, player))
        IN  /\ board' = placed.board
            /\ rejected' = ~placed.ret
    /\ pc' = "placed"
    /\ UNCHANGED <<driver, ai, pieces_count, current, winner, game_enabled, selected_shape,
                   stats, workers, signals, games, searchVars, probe>>

InitPlay == InitRules /\ board = EmptyBoard

NextPlay == PlayPlacePiece

SpecPlay == InitPlay /\ [][NextPlay]_vars

\* The same program when code called by _minimax_root may raise
NextFault == Next \/ GetMoveExcept

SpecFault == Init /\ [][NextFault]_vars

\* ------------------------------------------------------------------------
\* Properties
\* ------------------------------------------------------------------------
\* C1: every move get_move returns is accepted by the referee's is_valid_move
\* on the input board for the AI's own player, whichever stage or fallback
\* produced it
C1_ReturnedMoveIsValid ==
    (driver # "suite" /\ pc = "done" /\ result # NoMove) =>
        is_valid_move(board, result[1], result[2], Piece(result[3], current))

\* the deadline passed before the first root move was searched, and the
\* fallback valid_moves[0] was returned
C1_FallbackReturned ==
    /\ driver # "suite"
    /\ pc = "done"
    /\ expired
    /\ best_score = 0 - Inf
    /\ result # NoMove
    /\ result = best_move

\* C2: the shape of every move get_move returns has a remaining count > 0 in
\* the inventory it was given
C2_ShapeInInventory ==
    (driver # "suite" /\ pc = "done" /\ result # NoMove) =>
        pieces_count[current][result[3]] > 0

\* C3: get_move returns None only when the side to move has no legal move on
\* the input board, also after a deadline or an exception
C3_NoneOnlyWhenBlocked ==
    (driver # "suite" /\ pc = "done" /\ result = NoMove) =>
        ~has_valid_moves(board, current)

\* an exception ended the search before _minimax_root had chosen anything,
\* and get_move still returned a move
C3_MoveAfterException ==
    /\ driver # "suite"
    /\ pc = "done"
    /\ has_valid_moves(board, current)
    /\ best_move = NoMove
    /\ result # NoMove

\* C4: the legality check is true exactly when the target cell is empty and
\* no piece of the same shape owned by the other player lies in the target's
\* row, column or zone; the referee and the AI's own check both compute this
C4_LegalityAgrees ==
    probe.fn = "is_valid_move" =>
        LET row == probe.row
            col == probe.col
            piece == probe.piece
            SameLine(r, c) ==
                r = row \/ c = col \/ (r \div 2 = row \div 2 /\ c \div 2 = col \div 2)
            Blocked == \E r \in Idx, c \in Idx :
                          /\ SameLine(r, c)
                          /\ board[r][c] # None
                          /\ board[r][c].shape = piece.shape
                          /\ board[r][c].player # piece.player
        IN  /\ probe.ret = (board[row][col] = None /\ ~Blocked)
            /\ probe.ai_ret = (board[row][col] = None /\ ~Blocked)

\* a move accepted by both checks although the player's own piece of that
\* shape already stands in the row
C4_OwnDuplicateAccepted ==
    /\ probe.fn = "is_valid_move"
    /\ probe.ret
    /\ probe.ai_ret
    /\ \E c \in Idx : board[probe.row][c] = probe.piece

\* the owner reassignments tried on a position: the owners of up to
\* MaxFlipped cells exchanged, or of all cells
RECURSIVE CellSetsUpTo(_)
CellSetsUpTo(k) ==
    IF k = 0 THEN {{}}
    ELSE {S \cup {pos} : S \in CellSetsUpTo(k - 1), pos \in Cells} \cup {{}}

OwnerFlips == CellSetsUpTo(MaxFlipped) \cup {Cells}

\* C5: check_victory is true exactly when one of the 12 lines holds four
\* pieces of four different shapes, whoever owns them
C5_VictoryIffCompleteLine ==
    probe.fn = "check_victory" =>
        LET Lines == {{<<r, c>> : c \in Idx} : r \in Idx}
                     \cup {{<<r, c>> : r \in Idx} : c \in Idx}
                     \cup {{<<r, c>> : r \in {zr, zr + 1}, c \in {zc, zc + 1}} :
                              zr \in {0, 2}, zc \in {0, 2}}
            Complete(L) ==
                /\ \A pos \in L : At(board, pos) # None
                /\ \A pos \in L, q \in L : pos # q => At(board, pos).shape # At(board, q).shape
            Flipped(S) ==
                [r \in Idx |-> [c \in Idx |->
                    IF <<r, c>> \in S /\ board[r][c] # None
                    THEN Piece(board[r][c].shape, Other(board[r][c].player))
                    ELSE board[r][c]]]
        IN  /\ probe.ret = (\E L \in Lines : Complete(L))
            /\ \A S \in OwnerFlips : check_victory(Flipped(S)) = probe.ret

\* a victory found on a line that holds pieces of both players
C5_MixedLineWins ==
    /\ probe.fn = "check_victory"
    /\ probe.ret
    /\ \E i \in 1..12 :
          /\ all_diff(PiecesOn(board, all_lines[i]))
          /\ \E j \in 1..4, k \in 1..4 :
                At(board, all_lines[i][j]).player # At(board, all_lines[i][k]).player

\* C6: place_piece on an illegal move returns False and changes no cell; on a
\* legal move it returns True and changes the target cell alone, to the piece
C6_PlacePieceEffect ==
    probe.fn = "place_piece" =>
        IF is_valid_move(probe.before, probe.row, probe.col, probe.piece)
        THEN /\ probe.ret
             /\ board[probe.row][probe.col] = probe.piece
             /\ \A r \in Idx, c \in Idx :
                   <<r, c>> # <<probe.row, probe.col>> => board[r][c] = probe.before[r][c]
        ELSE /\ ~probe.ret
             /\ board = probe.before

\* a placement on an empty cell refused because of an opposing piece
C6_RefusedOnEmptyCell ==
    /\ probe.fn = "place_piece"
    /\ ~probe.ret
    /\ probe.before[probe.row][probe.col] = None

\* C7: in every state of a game, for every player and shape, the remaining
\* count plus the number of that player's pieces of that shape on the board
\* is 2; a refused placement changes neither the board nor the inventory
C7_InventoryBalance ==
    /\ [](driver # "suite" =>
            \A p \in Player, s \in Shapes : pieces_count[p][s] + OnBoard(board, p, s) = 2)
    /\ [][(driver # "suite" /\ rejected') =>
            (board' = board /\ pieces_count' = pieces_count)]_vars

\* a placement was refused in a game where a shape has been played a third
\* time
C7_RefusedAfterOverdraw ==
    /\ driver = "gui"
    /\ rejected
    /\ \E p \in Player, s \in Shapes : pieces_count[p][s] < 0

\* C8: at the return of every _minimax call and of _minimax_root the working
\* board is cell for cell the board at that call's entry, also after a
\* deadline or an alpha-beta cutoff
C8_BoardRestoredAtReturn ==
    driver # "suite" =>
        /\ pc = "exit" => game_board.cells = Top.entry
        /\ (pc = "ret" /\ stack # <<>>) =>
              game_board.cells =
                  SetCell(Top.entry, Top.valid_moves[Top.i][1], Top.valid_moves[Top.i][2],
                          Piece(Top.valid_moves[Top.i][3],
                                IF Top.maximizing THEN current ELSE Other(current)))
        /\ (pc = "ret" /\ stack = <<>>) =>
              game_board.cells =
                  SetCell(board, sorted_moves[root_i][1], sorted_moves[root_i][2],
                          Piece(sorted_moves[root_i][3], current))
        /\ pc \in {"root_loop", "root_end", "done"} => game_board.cells = board

\* a _minimax call two levels down returns through a cutoff after the
\* deadline has passed
C8_CutoffAfterDeadline ==
    /\ pc = "exit"
    /\ Len(stack) >= 2
    /\ expired
    /\ Top.i < Len(Top.valid_moves)

\* C9: no step of get_move changes the caller's board or inventory, on any
\* return path, and the working board never shares the caller's rows
C9_CallerUntouched ==
    /\ [](~game_board.aliased)
    /\ [][(driver # "suite" /\ pc # "done" /\ pc' # pc) =>
            (board' = board /\ pieces_count' = pieces_count)]_vars

\* inside the search the working board carries simulated pieces that the
\* caller's board does not
C9_WorkingBoardDiffers ==
    /\ pc = "loop"
    /\ Len(stack) >= 2
    /\ game_board.cells # board
    /\ \A pos \in Cells : At(board, pos) # None => At(game_board.cells, pos) = At(board, pos)

\* C10: the move generator returns every (row, col, shape) the legality check
\* accepts exactly once and nothing else, by row, then column, then Shape
\* declaration order; it leaves the board alone and a second call agrees
C10_GeneratorExactOrdered ==
    probe.fn = "generate_all_valid_moves" =>
        LET moves == probe.ret
            Legal(row, col, shape) ==
                is_valid_move(probe.before, row, col, Piece(shape, probe.player))
            Declared(shape) == CHOOSE k \in 1..Len(Shape) : Shape[k] = shape
            Rank(m) == m[1] * 16 + m[2] * 4 + Declared(m[3])
        IN  /\ \A k \in 1..Len(moves) : moves[k] \in Idx \X Idx \X Shapes
            /\ \A row \in Idx, col \in Idx, shape \in Shapes :
                  Cardinality({k \in 1..Len(moves) : moves[k] = <<row, col, shape>>})
                      = IF Legal(row, col, shape) THEN 1 ELSE 0
            /\ \A k \in 1..(Len(moves) - 1) : Rank(moves[k]) < Rank(moves[k + 1])
            /\ board = probe.before
            /\ probe.again = moves

\* a generated list with two shapes on one cell and cells in two rows
C10_SeveralCellsAndShapes ==
    /\ probe.fn = "generate_all_valid_moves"
    /\ \E k \in 1..(Len(probe.ret) - 1) :
          /\ probe.ret[k][1] = probe.ret[k + 1][1]
          /\ probe.ret[k][2] = probe.ret[k + 1][2]
    /\ \E k \in 1..(Len(probe.ret) - 1) : probe.ret[k][1] < probe.ret[k + 1][1]

\* C11: on the empty board with 2 pieces of each shape left to both players,
\* the generated move list of a player has exactly 64 entries, one for each
\* of the 16 cells and 4 shapes
C11_EmptyBoardHas64Moves ==
    (/\ probe.fn = "generate_all_valid_moves"
     /\ probe.before = EmptyBoard
     /\ \A p \in Player, s \in Shapes : pieces_count[p][s] = 2) =>
        /\ Len(probe.ret) = 64
        /\ {probe.ret[k] : k \in 1..Len(probe.ret)} = Idx \X Idx \X Shapes

\* the list of the player to move was generated on the empty board
C11_OpeningListed ==
    /\ probe.fn = "generate_all_valid_moves"
    /\ probe.before = EmptyBoard
    /\ probe.player = current
    /\ pieces_count[current] = [s \in Shapes |-> 2]
    /\ Len(probe.ret) = 64

\* C12: with one piece of shape X at (0,0) and nothing else on the board, the
\* other player may not place shape X on the 8 cells of row 0, column 0 and
\* the top-left zone and may place it on the 8 other cells; the three other
\* shapes may be placed on each of the 15 empty cells
C12_CornerPieceBarsEightCells ==
    \A X \in Shapes, q \in Player :
        (/\ probe.fn = "is_valid_move"
         /\ board = SetCell(EmptyBoard, 0, 0, Piece(X, q))
         /\ probe.piece.player = Other(q)) =>
            LET Barred == {<<0,0>>, <<0,1>>, <<0,2>>, <<0,3>>,
                           <<1,0>>, <<2,0>>, <<3,0>>, <<1,1>>}
                Expected == IF probe.piece.shape = X
                            THEN <<probe.row, probe.col>> \notin Barred
                            ELSE <<probe.row, probe.col>> # <<0,0>>
            IN  /\ probe.ret = Expected
                /\ probe.ai_ret = Expected

\* the same shape refused on (1,1), which shares only the zone with (0,0)
C12_ZoneCellRefused ==
    /\ probe.fn = "is_valid_move"
    /\ \E q \in Player : board = SetCell(EmptyBoard, 0, 0, Piece(probe.piece.shape, q))
                          /\ probe.piece.player = Other(q)
    /\ probe.row = 1
    /\ probe.col = 1
    /\ ~probe.ret

\* the position after a move of the side to move
AfterMove(b, m, player) == SetCell(b, m[1], m[2], Piece(m[3], player))

\* some move the referee accepts from the side to move completes a line
CanWinNow ==
    \E row \in Idx, col \in Idx :
        /\ board[row][col] = None
        /\ \E shape \in Shapes :
              /\ is_valid_move(board, row, col, Piece(shape, current))
              /\ check_victory(AfterMove(board, <<row, col, shape>>, current))

\* C13: whenever a legal move of the side to move makes check_victory true,
\* get_move returns a move after which check_victory is true, through rule 1
\* (score 20000) and without a single search node, whatever threats the
\* opponent has; the search loop (which every search state goes through at
\* root_i = 1) is never started on such a position
C13_WinTakenFirst ==
    (/\ driver # "suite"
     /\ pc = "done" \/ (pc = "root_loop" /\ root_i = 1)
     /\ CanWinNow) =>
        /\ pc = "done"
        /\ result # NoMove
        /\ check_victory(AfterMove(board, result, current))
        /\ best_score = 20000
        /\ nodes_evaluated = 0
        /\ stack = <<>>

\* a win was returned although the opponent has an immediate threat that the
\* winning move does not take away
C13_WinDespiteThreats ==
    /\ driver # "suite"
    /\ pc = "done"
    /\ best_score = 20000
    /\ result # NoMove
    /\ check_victory(AfterMove(board, result, current))
    /\ find_immediate_threats(board, Other(current)) # <<>>
    /\ find_immediate_threats(AfterMove(board, result, current), Other(current)) # <<>>

\* line i holds three pieces of the side to move, of three different shapes,
\* and one empty cell, and the side to move has the fourth shape left
OwnsThreeOf(i) ==
    LET line == all_lines[i]
        filled == {k \in 1..4 : At(board, line[k]) # None}
    IN  /\ Cardinality(filled) = 3
        /\ \A k \in filled : At(board, line[k]).player = current
        /\ Cardinality({At(board, line[k]).shape : k \in filled}) = 3
        /\ \E s \in Shapes : /\ \A k \in filled : At(board, line[k]).shape # s
                              /\ pieces_count[current][s] > 0

\* the move that puts the missing shape on the empty cell of line i
CompletingMove(i) ==
    LET line == all_lines[i]
        k == CHOOSE j \in 1..4 : At(board, line[j]) = None
        s == CHOOSE t \in Shapes : \A j \in 1..4 : At(board, line[j]) = None \/ At(board, line[j]).shape # t
    IN  <<line[k][1], line[k][2], s>>

\* C14 as stated: whenever the side to move owns three different shapes in a
\* line with one empty cell and has the fourth shape left, get_move returns
\* the move completing that line
C14_CompletingMoveReturned ==
    (driver # "suite" /\ pc = "done") =>
        \A i \in 1..12 : OwnsThreeOf(i) => result = CompletingMove(i)

\* the moves the referee accepts from the side to move that complete a line
WinningMoves ==
    {m \in Idx \X Idx \X Shapes :
        /\ is_valid_move(board, m[1], m[2], Piece(m[3], current))
        /\ check_victory(AfterMove(board, m, current))}

\* C14, amended: when the side to move owns three different shapes in a line
\* with one empty cell, has the fourth shape left and may legally place it
\* there, get_move returns a winning move: the first one by row, column and
\* shape, which is the move completing that line unless another winning move
\* comes before it
C14_FirstWinningMoveReturned ==
    (driver # "suite" /\ pc = "done") =>
        LET wins == WinningMoves
            Rank(m) == m[1] * 16 + m[2] * 4 + m[3]
        IN  \A i \in 1..12 :
                (OwnsThreeOf(i) /\ CompletingMove(i) \in wins) =>
                    /\ result \in wins
                    /\ \A m \in wins : Rank(result) <= Rank(m)
                    /\ (\A m \in wins : Rank(CompletingMove(i)) <= Rank(m)) =>
                          result = CompletingMove(i)

\* the move completing the side to move's own line was returned
C14_OwnLineCompleted ==
    /\ driver # "suite"
    /\ pc = "done"
    /\ \E i \in 1..12 : /\ OwnsThreeOf(i)
                         /\ CompletingMove(i) \in WinningMoves
                         /\ result = CompletingMove(i)

\* the legal moves of the side to move, shape still in its inventory, on the
\* vacancy of the opponent's only immediate threat that leave the opponent
\* without immediate threat
SafeBlocks ==
    LET threats == find_immediate_threats(board, Other(current))
    IN  IF Len(threats) # 1 THEN {}
        ELSE {m \in Idx \X Idx \X Shapes :
                /\ <<m[1], m[2]>> = threats[1][1]
                /\ pieces_count[current][m[3]] > 0
                /\ is_valid_move(board, m[1], m[2], Piece(m[3], current))
                /\ find_immediate_threats(AfterMove(board, m, current), Other(current)) = <<>>}

\* C15: when the opponent has exactly one immediate threat and exactly one
\* safe blocking move exists, get_move returns that move
C15_OnlySafeBlockReturned ==
    (driver # "suite" /\ pc = "done") =>
        LET safe == SafeBlocks
        IN  Cardinality(safe) = 1 => result \in safe

\* C16: over the 12 lines, the threat analyzer reports one immediate threat
\* for each line with 3 filled cells of 3 different shapes holding a piece of
\* the player, with that line's single empty cell, and one developing threat
\* for each line with 2 filled cells of 2 different shapes holding a piece of
\* the player, with that line's two empty cells, and nothing else: no line
\* that repeats a shape and no line without a piece of the player
C16_ThreatsExactlyQualifyingLines ==
    probe.fn = "find_threats" =>
        LET Lines == {{<<r, c>> : c \in Idx} : r \in Idx}
                     \cup {{<<r, c>> : r \in Idx} : c \in Idx}
                     \cup {{<<r, c>> : r \in {zr, zr + 1}, c \in {zc, zc + 1}} :
                              zr \in {0, 2}, zc \in {0, 2}}
            Filled(L) == {pos \in L : At(board, pos) # None}
            Qualifies(L, n) ==
                /\ Cardinality(Filled(L)) = n
                /\ Cardinality({At(board, pos).shape : pos \in Filled(L)}) = n
                /\ \E pos \in Filled(L) : At(board, pos).player = probe.player
            AsSet(t) == {t[k] : k \in 1..Len(t)}
            Exact(reported, n) ==
                /\ Len(reported) = Cardinality({L \in Lines : Qualifies(L, n)})
                /\ \A k \in 1..Len(reported) : Len(reported[k]) = 4 - n
                /\ \A V \in {L \ Filled(L) : L \in Lines} \cup {AsSet(reported[k]) : k \in 1..Len(reported)} :
                      Cardinality({k \in 1..Len(reported) : AsSet(reported[k]) = V})
                          = Cardinality({L \in Lines : Qualifies(L, n) /\ L \ Filled(L) = V})
        IN  /\ Exact(probe.immediate, 3)
            /\ Exact(probe.developing, 2)
            /\ board = probe.before

\* both kinds of threat reported on one position, next to a line with three
\* different shapes that is not reported because the player owns none of them
C16_BothKindsAndForeignLine ==
    /\ probe.fn = "find_threats"
    /\ probe.immediate # <<>>
    /\ probe.developing # <<>>
    /\ Len(find_immediate_threats(board, Other(probe.player))) > Len(probe.immediate)

\* C17: in every state of a GUI game and for each player, has_valid_moves is
\* true exactly when some (row, col, shape) with a remaining count > 0 in
\* the player's inventory passes the legality check
C17_BlockedIffNoLegalMove ==
    driver = "gui" =>
        \A player \in Player :
            has_valid_moves(board, player) <=>
                \E row \in Idx, col \in Idx, shape \in Shapes :
                    /\ pieces_count[player][shape] > 0
                    /\ is_valid_move(board, row, col, Piece(shape, player))

\* C18 as stated: the static evaluation is 0 on the empty board and on every
\* position that is the same for both players up to a symmetry of the board,
\* whichever player the AI is
C18_MirroredScoresZero ==
    (probe.fn = "evaluate_position" /\ (board = EmptyBoard \/ \E k \in 1..7 : IsMirrored(board, k))) =>
        probe.ret = 0

\* C18, amended: the static evaluation is 0 on the empty board, whichever
\* player the AI is; on a position that is the same for both players up to a
\* symmetry of the board it is the same number for the AI of either player,
\* not 0 in general
C18_EmptyZeroMirroredEqual ==
    probe.fn = "evaluate_position" =>
        /\ board = EmptyBoard => probe.ret = 0
        /\ (\E k \in 1..7 : IsMirrored(board, k)) =>
              probe.ret = evaluate_position(board, Other(probe.me))

\* a position that is the same for both players evaluated to a score other
\* than 0
C18_MirroredScoredNonZero ==
    /\ probe.fn = "evaluate_position"
    /\ board # EmptyBoard
    /\ \E k \in 1..7 : IsMirrored(board, k)
    /\ probe.ret # 0
    /\ probe.ret = evaluate_position(board, Other(probe.me))

\* C19: on a non-empty move list the emergency selector returns an element
\* of the list: the first one in list order on one of the 4 centre cells if
\* there is one, otherwise the first element; it returns None exactly on the
\* empty list
C19_EmergencyPicksCentreOrFirst ==
    probe.fn = "emergency_move_selection" =>
        LET moves == probe.valid_moves
            Centre == {<<1,1>>, <<1,2>>, <<2,1>>, <<2,2>>}
            central == {k \in 1..Len(moves) : <<moves[k][1], moves[k][2]>> \in Centre}
        IN  IF moves = <<>> THEN probe.ret = NoMove
            ELSE /\ probe.ret # NoMove
                 /\ \E k \in 1..Len(moves) : probe.ret = moves[k]
                 /\ IF central = {} THEN probe.ret = moves[1]
                    ELSE \E k \in central : /\ probe.ret = moves[k]
                                              /\ \A j \in central : k <= j

\* a centre move at the second place of the list was preferred to the first
\* element
C19_LaterCentreMoveChosen ==
    /\ probe.fn = "emergency_move_selection"
    /\ Len(probe.valid_moves) = 2
    /\ probe.ret = probe.valid_moves[2]
    /\ probe.ret # probe.valid_moves[1]
    /\ <<probe.ret[1], probe.ret[2]>> \in {<<1,2>>, <<2,1>>}

\* C20: when no tactical rule fires and the deadline has passed before the
\* first root move is searched, get_move returns what the emergency selector
\* chooses from the legal moves: the first on a centre cell if there is one,
\* otherwise the first
C20_EmergencyChoiceAfterDeadline ==
    (/\ driver # "suite"
     /\ pc = "done"
     /\ expired
     /\ nodes_evaluated = 0
     /\ best_score = 0 - Inf) =>
        result = emergency_move_selection(board, generate_all_valid_moves(board, current))

\* the opponent's developing threats on the position get_move was called on
OpponentDevThreats == find_developing_threats(board, Other(current))

\* C21: when the side to move has no winning move, the opponent has no
\* immediate threat and has a developing threat, get_move returns a move on
\* one of the two empty cells of a developing threat
C21_DevelopingThreatBlocked ==
    (/\ driver # "suite"
     /\ pc = "done"
     /\ find_immediate_threats(board, Other(current)) = <<>>
     /\ OpponentDevThreats # <<>>
     /\ ~CanWinNow) =>
        /\ result # NoMove
        /\ InSomeThreat(result[1], result[2], OpponentDevThreats)

\* C22: the depth chosen for a number of pieces is base_depth for 0..4 pieces,
\* base_depth + 2 for 5..10 and base_depth + 4 for 11..16; it never decreases
\* when the number grows, and is strictly larger in each later stage
C22_DepthGrowsWithPieces ==
    (driver = "suite" /\ pc = "done" /\ probe.fn = "calculate_optimal_depth") =>
        LET n == probe.pieces_played
        IN  /\ n <= 4 => probe.ret = base_depth
            /\ (5 <= n /\ n <= 10) => probe.ret = base_depth + 2
            /\ 11 <= n => probe.ret = base_depth + 4
            /\ \A m \in 0..n : calculate_optimal_depth(m) <= probe.ret
            /\ \A m \in 0..4 : n >= 5 => calculate_optimal_depth(m) < probe.ret
            /\ \A m \in 5..10 : n >= 11 => calculate_optimal_depth(m) < probe.ret

\* the depth was asked for a board past the middlegame and came out deeper
\* than the opening depth
C22_EndgameDeeper ==
    /\ driver = "suite"
    /\ pc = "done"
    /\ probe.fn = "calculate_optimal_depth"
    /\ probe.pieces_played = 11
    /\ probe.ret > calculate_optimal_depth(4)

C24_OneWorkerUndisturbed ==
    /\ [](driver = "gui" => workers <= 1)
    /\ [][(driver = "gui" /\ workers >= 1 /\ games' = games) =>
            (board' = board /\ pieces_count' = pieces_count)]_vars

\* C25: a node of the search at which check_victory holds is scored as a win
\* of the side that made the last simulated move: above 0 at a minimizing
\* node (the AI moved last), below 0 at a maximizing node (the opponent did)
C25_VictoryScoredForMover ==
    [][(/\ driver # "suite"
        /\ pc = "call"
        /\ nodes_evaluated' = nodes_evaluated + 1
        /\ check_victory(game_board.cells)) =>
            IF call.maximizing THEN ret' < 0 ELSE ret' > 0]_vars

\* C26: inside the search, a node without a victory at which the side to move
\* has no legal move returns 0, whatever the remaining depth
C26_BlockedNodeIsDraw ==
    [][(/\ driver = "search"
        /\ pc = "call"
        /\ nodes_evaluated' = nodes_evaluated + 1
        /\ ~check_victory(game_board.cells)
        /\ generate_all_valid_moves(game_board.cells,
               IF call.maximizing THEN current ELSE Other(current)) = <<>>) =>
            (ret' = 0 /\ pc' = "ret")]_vars

\* minimax without a window: every move of every node is searched
RECURSIVE PlainValue(_, _, _, _), PlainOver(_, _, _, _, _, _)
PlainValue(b, me, d, maximizing) ==
    IF check_victory(b)
    THEN IF is_winner(b, me) THEN 10000 - (10 - d) ELSE (0 - 10000) + (10 - d)
    ELSE IF d = 0 THEN evaluate_position(b, me)
    ELSE LET moves == generate_all_valid_moves(b, IF maximizing THEN me ELSE Other(me))
         IN  IF moves = <<>> THEN 0 ELSE PlainOver(b, me, d, maximizing, moves, 1)

PlainOver(b, me, d, maximizing, moves, i) ==
    LET m == moves[i]
        mover == IF maximizing THEN me ELSE Other(me)
        v == PlainValue(Simulate(b, m[1], m[2], Piece(m[3], mover)), me, d - 1, ~maximizing)
    IN  IF i = Len(moves) THEN v
        ELSE LET rest == PlainOver(b, me, d, maximizing, moves, i + 1)
             IN  IF maximizing THEN Max(v, rest) ELSE Min(v, rest)

\* the nodes that search enters
RECURSIVE PlainNodes(_, _, _, _), PlainNodesOver(_, _, _, _, _, _)
PlainNodes(b, me, d, maximizing) ==
    IF check_victory(b) \/ d = 0 THEN 1
    ELSE LET moves == generate_all_valid_moves(b, IF maximizing THEN me ELSE Other(me))
         IN  IF moves = <<>> THEN 1 ELSE 1 + PlainNodesOver(b, me, d, maximizing, moves, 1)

PlainNodesOver(b, me, d, maximizing, moves, i) ==
    LET m == moves[i]
        mover == IF maximizing THEN me ELSE Other(me)
        n == PlainNodes(Simulate(b, m[1], m[2], Piece(m[3], mover)), me, d - 1, ~maximizing)
    IN  IF i = Len(moves) THEN n ELSE n + PlainNodesOver(b, me, d, maximizing, moves, i + 1)

\* a call entered with the full window has returned before the deadline
FullWindowReturned ==
    /\ driver = "search"
    /\ pc = "ret"
    /\ stack = <<>>
    /\ ~expired

\* C27: when the deadline does not expire, a call of _minimax with the full
\* window returns the value of minimax without pruning over the same
\* generator, terminal tests and evaluator
C27_PruningKeepsValue ==
    FullWindowReturned =>
        ret = PlainValue(board, current, probe.depth, probe.maximizing)

\* a call that pruned has returned the unpruned value
C27_PrunedCallReturned ==
    /\ FullWindowReturned
    /\ probe.depth = 2
    /\ nodes_evaluated < PlainNodes(board, current, probe.depth, probe.maximizing)
    /\ ret = PlainValue(board, current, probe.depth, probe.maximizing)

\* the legal moves of the side to move on a vacancy of an immediate threat of
\* the opponent
ResolvingMoves ==
    LET threats == find_immediate_threats(board, Other(current))
        moves == generate_all_valid_moves(board, current)
    IN  {moves[i] : i \in {j \in 1..Len(moves) : InSomeThreat(moves[j][1], moves[j][2], threats)}}

\* the immediate threats the opponent keeps after move m
RemainingAfter(m) == Len(find_immediate_threats(AfterMove(board, m, current), Other(current)))

\* opponent-owned cells of the most contested threatened line through m's cell
DominanceOf(m) ==
    calculate_threat_dominance_bonus(board, current, m[1], m[2],
                                     find_immediate_threats(board, Other(current)))

\* the multi-threat rule has returned
MultiThreatReturned ==
    /\ driver \in {"runner", "gui"}
    /\ pc = "done"
    /\ best_score = 14000

\* C28: the move the multi-threat rule returns leaves the fewest immediate
\* threats of the opponent among the legal moves on a resolving vacancy, and
\* has the largest dominance among those that leave as few
C28_BestBlockResolvesMost ==
    MultiThreatReturned =>
        /\ result \in ResolvingMoves
        /\ \A m \in ResolvingMoves :
                /\ RemainingAfter(result) <= RemainingAfter(m)
                /\ RemainingAfter(result) = RemainingAfter(m) =>
                        DominanceOf(result) >= DominanceOf(m)

\* get_move has returned from a position without a winning move in which the
\* opponent has several immediate threats and _find_best_blocking_move found
\* no move
BestBlockingFailedOn(vm, threats) ==
    /\ vm # <<>>
    /\ WinProbe(board, current, vm, 1).move = NoMove
    /\ Len(threats) >= 2
    /\ find_best_blocking_move(board, current, threats, vm).move = NoMove

BestBlockingFailed ==
    /\ driver \in {"runner", "gui"}
    /\ pc = "done"
    /\ BestBlockingFailedOn(generate_all_valid_moves(board, current),
                            find_immediate_threats(board, Other(current)))

CounterRuleReturned ==
    /\ driver \in {"runner", "gui"}
    /\ pc = "done"
    /\ best_score \in {13000, 11000}

\* C30: the counter rule returns a move only from a position in which the AI
\* has no winning move and the opponent has no immediate threat and at least
\* one developing threat
C30_CounterRuleOnlyWithoutThreat ==
    CounterRuleReturned =>
        /\ WinProbe(board, current, generate_all_valid_moves(board, current), 1).move = NoMove
        /\ Len(find_immediate_threats(board, Other(current))) = 0
        /\ Len(find_developing_threats(board, Other(current))) >= 1
        /\ result # NoMove

\* the counter rule has returned its move against a developing threat
C30_CounterRuleDecided ==
    /\ CounterRuleReturned
    /\ Len(find_immediate_threats(board, Other(current))) = 0
    /\ Len(find_developing_threats(board, Other(current))) >= 1
    /\ result # NoMove

\* an immediate threat the blocking rules left unanswered, with a developing
\* threat beside it, was decided by the search
UnansweredThreatSearched ==
    /\ driver \in {"runner", "gui"}
    /\ pc = "done"
    /\ result # NoMove
    /\ best_score \notin {20000, 15000, 14000, 13500, 13000, 11000}
    /\ Len(find_immediate_threats(board, Other(current))) >= 1
    /\ Len(find_developing_threats(board, Other(current))) >= 1

\* the legal moves of the side to move after which the opponent holds no
\* immediate threat
SafeMoves ==
    LET moves == generate_all_valid_moves(board, current)
    IN  {moves[i] : i \in {j \in 1..Len(moves) : RemainingAfter(moves[j]) = 0}}

\* 200 per own immediate threat and 100 per own developing threat after move
\* m, 150 more when m lies on a vacancy of an opponent developing threat
CounterScoreOf(m) ==
    Len(find_immediate_threats(AfterMove(board, m, current), current)) * 200
    + Len(find_developing_threats(AfterMove(board, m, current), current)) * 100
    + (IF InSomeThreat(m[1], m[2], OpponentDevThreats) THEN 150 ELSE 0)

\* C31: the move the counter rule returns leaves the opponent no immediate
\* threat, has the largest counter score among the legal moves that leave
\* none, and scores at least 150 (so the rule returns nothing when no such
\* move scores 150)
C31_CounterMoveSafeAndBest ==
    CounterRuleReturned =>
        /\ best_move \in SafeMoves
        /\ \A m \in SafeMoves : CounterScoreOf(best_move) >= CounterScoreOf(m)
        /\ CounterScoreOf(best_move) >= 150

\* the counter rule has returned a move that scores more than another safe
\* move
C31_BestCounterReturned ==
    /\ CounterRuleReturned
    /\ best_move \in SafeMoves
    /\ CounterScoreOf(best_move) >= 150
    /\ \E m \in SafeMoves : CounterScoreOf(m) < CounterScoreOf(best_move)

\* no safe move reaches the bar and the rules have left the decision to the
\* search
C31_BelowBarLeftToSearch ==
    /\ pc = "root_loop"
    /\ root_i = 1
    /\ find_immediate_threats(board, Other(current)) = <<>>
    /\ OpponentDevThreats # <<>>
    /\ SafeMoves # {}
    /\ \A m \in SafeMoves : CounterScoreOf(m) < 150

\* the priority _sort_moves_by_priority gives move m on the position get_move
\* was called on
PriorityOf(m) ==
    PositionalPriority(m[1], m[2])
    + Len(find_immediate_threats(AfterMove(board, m, current), current)) * 200
    + count_line_potential(AfterMove(board, m, current), current) * 10

\* the place of move m in the list the generator returned
PlaceOf(m) == CHOOSE i \in 1..Len(valid_moves) : valid_moves[i] = m

\* _minimax_root has ordered its moves and not searched any yet
MovesOrdered ==
    /\ driver \in {"runner", "gui"}
    /\ pc = "root_loop"
    /\ root_i = 1

\* C32: the ordered list is a permutation of the generated list, by
\* non-increasing priority, moves of equal priority in the order the
\* generator gave them, and the board is as it was before the ordering
C32_OrderingIsStablePermutation ==
    MovesOrdered =>
        /\ Len(sorted_moves) = Len(valid_moves)
        /\ \A i \in 1..Len(valid_moves) :
                Cardinality({j \in 1..Len(sorted_moves) : sorted_moves[j] = valid_moves[i]}) = 1
        /\ \A i, j \in 1..Len(sorted_moves) :
                i < j => \/ PriorityOf(sorted_moves[i]) > PriorityOf(sorted_moves[j])
                         \/ /\ PriorityOf(sorted_moves[i]) = PriorityOf(sorted_moves[j])
                            /\ PlaceOf(sorted_moves[i]) < PlaceOf(sorted_moves[j])
        /\ game_board.cells = board

\* an ordering that moved a later move ahead and kept a tie in place
C32_ReorderedWithTie ==
    /\ MovesOrdered
    /\ sorted_moves # valid_moves
    /\ \E i \in 1..(Len(sorted_moves) - 1) :
            /\ PriorityOf(sorted_moves[i]) = PriorityOf(sorted_moves[i + 1])
            /\ PlaceOf(sorted_moves[i]) < PlaceOf(sorted_moves[i + 1])
    /\ game_board.cells = board

\* C33: a value returned by a search the deadline cut short is never adopted
\* as the score of a root move: the best move and its score stay those of the
\* moves searched in full
C33_AbortedValueNotAdopted ==
    [][(/\ driver \in {"runner", "gui"}
        /\ pc = "ret"
        /\ stack = <<>>
        /\ expired) =>
            (best_score' = best_score /\ best_move' = best_move)]_vars

\* C34: the passes of one decision go up from depth 1: the pass that starts the
\* search loop at the first root move, with nothing searched yet, is the pass
\* at depth 1
C34_FirstPassAtDepthOne ==
    (/\ driver \in {"runner", "gui"}
     /\ pc = "root_loop"
     /\ root_i = 1
     /\ best_move = NoMove) => depth = 1

\* C35: in play_one_game every inventory count stays within 0..2
C35_InventoryWithinRange ==
    driver = "runner" =>
        \A p \in Player, s \in Shapes : pieces_count[p][s] \in 0..2

\* the pieces of one shape on one line all belong to one player
SingleOwnerPerShape(b) ==
    \A i \in 1..12 : \A j \in 1..4, k \in 1..4 :
        LET p == At(b, all_lines[i][j])
            q == At(b, all_lines[i][k])
        IN  (p # None /\ q # None /\ p.shape = q.shape) => p.player = q.player

\* C36: on every board reached from the empty board through successful
\* place_piece calls, no row, column or zone holds the same shape of both
\* players
C36_NoShapeOfBothPlayersInLine ==
    driver = "suite" => SingleOwnerPerShape(board)

\* two placements were accepted and left two pieces of one shape on one line
C36_ShapeRepeatedInLine ==
    /\ driver = "suite"
    /\ pc = "placed"
    /\ ~rejected
    /\ pieces_played_on(board) = 2
    /\ \E i \in 1..12 : \E j \in 1..4, k \in 1..4 :
        /\ j # k
        /\ At(board, all_lines[i][j]) # None
        /\ At(board, all_lines[i][j]) = At(board, all_lines[i][k])

\* the cells of b that hold a piece
Filled(b) == {pos \in Cells : At(b, pos) # None}

\* C37: each turn of play_one_game's loop either ends the game with a winner
\* or fills one cell that was empty and leaves the other cells as they were,
\* so the loop ends after at most 16 placements
C37_TurnEndsGameOrFillsCell ==
    [][(driver = "runner" /\ pc = "done" /\ pc' = "idle") =>
            \/ winner' # 0
            \/ \E pos \in Cells \ Filled(board) :
                /\ Filled(board') = Filled(board) \cup {pos}
                /\ \A q \in Filled(board) : At(board', q) = At(board, q)]_vars

\* the game went on after a placement and ended on the full board, where
\* get_move returned no move
C37_EndedOnFullBoard ==
    /\ driver = "runner"
    /\ winner # 0
    /\ result = NoMove
    /\ Filled(board) = Cells
    /\ board \notin InitBoards

\* the value of the root move sm.moves[i] searched in full to depth d
RootValue(sm, me, d, i) ==
    LET m == sm.moves[i]
    IN  PlainValue(Simulate(sm.board, m[1], m[2], Piece(m[3], me)), me, d - 1, FALSE)

\* the first of the ordered moves whose value no other move exceeds
SearchedBest(sm, me, d) ==
    LET n == Len(sm.moves)
        i == CHOOSE i \in 1..n :
                /\ \A j \in 1..n : RootValue(sm, me, d, j) <= RootValue(sm, me, d, i)
                /\ \A j \in 1..(i - 1) : RootValue(sm, me, d, j) < RootValue(sm, me, d, i)
    IN  sm.moves[i]

DecidedOn(b, me, vm, t) ==
    IF t.decided THEN t.move
    ELSE SearchedBest(sort_moves_by_priority(t.board, me, vm), me,
                      calculate_optimal_depth(pieces_played_on(b)))

\* the move that depends on the board and the player alone: the tactical
\* rules' move, or the best move of the search run to its end
MoveOf(b, me) ==
    LET vm == generate_all_valid_moves(b, me)
    IN  IF vm = <<>> THEN NoMove ELSE DecidedOn(b, me, vm, RootTactics(b, me, vm))

\* C38: when the deadline does not expire, the move get_move returns is a
\* function of the board and the player, whatever was decided before on the
\* same instance
C38_MoveDependsOnBoardOnly ==
    (/\ driver \in {"runner", "gui"}
     /\ pc = "done"
     /\ ~expired) => result = MoveOf(board, current)

\* a search ran to its end in a game where two moves were decided before, one
\* of them by the same instance, and one of the earlier searches was cut short
C38_DecidedAfterEarlierCalls ==
    /\ driver \in {"runner", "gui"}
    /\ pc = "done"
    /\ ~expired
    /\ nodes_evaluated > 0
    /\ Cardinality({pos \in Filled(board) : At(board, pos) # At(BaseBoard, pos)}) >= 2

\* every queued emission comes from a worker started before new_game: the new
\* game has placed nothing and its own worker, if any, is still in flight
OnlyStaleResults ==
    /\ driver = "gui"
    /\ games > 0
    /\ board = EmptyBoard
    /\ ai[PLAYER1] = "human" \/ workers = 1
    /\ signals # <<>>

\* C39: a result emitted by a worker started before new_game is not applied
\* to the new game: when _execute_ai_move takes it from the queue, the new
\* board, inventory, side to move and winner stay as new_game set them
C39_StaleResultNotApplied ==
    [][(OnlyStaleResults /\ signals' = Tail(signals)) =>
            /\ board' = board
            /\ pieces_count' = pieces_count
            /\ current' = current
            /\ winner' = winner]_vars

====
